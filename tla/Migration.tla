----------------------------- MODULE Migration -----------------------------
(***************************************************************************)
(* The delivery of a new master's address to one client.  A promoted host  *)
(* signs an announcement for each client of its snapshot in turn and sends *)
(* it once; the client's handler queues it for the event loop, which       *)
(* applies it between its other work and saves config.yaml.                *)
(*                                                                         *)
(* Masters are counted in the order of their promotions; a promoted host   *)
(* replaces a fenced one, whose broadcast has ended.  Time is in minutes,  *)
(* and the clocks of the masters agree; the client's may be off by Skew.   *)
(* An announcement may be lost, arrive twice, or be queued by a client     *)
(* whose sender no longer waits for the answer.  Every announcement here   *)
(* carries a valid signature and address.                                  *)
(***************************************************************************)
EXTENDS Integers, Sequences

CONSTANTS
    Skew,       \* the client's clock minus the masters'
    Others,     \* clients that come before this one in a broadcast
    QueueCap,   \* capacity of the channel of migration requests
    MaxBusy,    \* the longest a run of register() and pull() takes
    MaxEpoch,   \* bound: promotions
    MaxTime,    \* bound: the clock
    MaxWork,    \* bound: ticks of the client's tickers
    MaxFaults,  \* bound: crashes and failed writes
    MaxCopies   \* bound: announcements that arrive again

ASSUME MigrationAssumption ==
    /\ Skew \in Int
    /\ Others \in Nat /\ QueueCap \in Nat \ {0} /\ MaxBusy \in Nat \ {0}
    /\ MaxEpoch \in Nat /\ MaxTime \in Nat /\ MaxWork \in Nat
    /\ MaxFaults \in Nat /\ MaxCopies \in Nat

VARIABLES
    now,
    epoch,      \* the latest promoted master
    draft,      \* the packet its broadcast is working on
    left,       \* the addresses it has yet to send to; this client is the last
    sent,       \* announcements sent to this client
    flying,     \* those that may still arrive
    waiting,    \* those whose sender waits for the answer
    outcome,    \* what the sender logged
    up,         \* is the client's process running?
    busy,       \* at most this long until the event loop selects again
    queue,      \* the channel
    mem,        \* the client's configuration: master_address, last_migration
    disk,       \* config.yaml
    used        \* the part of the bounds used up

sender == <<epoch, draft, left, sent>>

vars == <<now, sender, flying, waiting, outcome, up, busy, queue, mem, disk, used>>

-----------------------------------------------------------------------------

Epochs == 0 .. MaxEpoch

Packets == [master : Nat, issued : Int]

Configs == [master : Nat, last : Int]

TypeOK ==
    /\ now \in Nat /\ epoch \in Nat
    /\ draft \in Packets /\ left \in 0 .. Others + 1
    /\ sent \in SUBSET Packets /\ flying \in SUBSET sent /\ waiting \in SUBSET sent
    /\ outcome \in [Epochs -> {"none", "delivered", "rejected", "failed"}]
    /\ up \in BOOLEAN
    /\ busy \in 0 .. MaxBusy
    /\ queue \in Seq(Packets) /\ Len(queue) <= QueueCap
    /\ mem \in Configs /\ disk \in Configs
    /\ used \in [work : Nat, faults : Nat, copies : Nat]

\* The client follows the first master and has just started.
Init ==
    /\ now = 1 /\ epoch = 0
    /\ draft = [master |-> 0, issued |-> 0] /\ left = 0
    /\ sent = {} /\ flying = {} /\ waiting = {}
    /\ outcome = [k \in Epochs |-> "none"]
    /\ up = TRUE /\ busy = MaxBusy
    /\ queue = <<>>
    /\ mem = [master |-> 0, last |-> 0] /\ disk = mem
    /\ used = [work |-> 0, faults |-> 0, copies |-> 0]

-----------------------------------------------------------------------------
(* The promoted host *)

\* RunPromote gets as far as broadcastMigration, at least a minute after the
\* last packet of the master it replaces.
Promote ==
    /\ epoch < MaxEpoch /\ now < MaxTime
    /\ epoch' = epoch + 1
    /\ now' = now + 1
    /\ draft' = [master |-> epoch + 1, issued |-> now + 1]
    /\ left' = Others + 1
    /\ waiting' = {}
    /\ outcome' = [k \in Epochs |->
          IF \E p \in waiting : p.master = k THEN "failed" ELSE outcome[k]]
    /\ busy' = IF busy = 0 THEN 0 ELSE busy - 1
    /\ UNCHANGED <<sent, flying, up, queue, mem, disk, used>>

\* Mutant: the packet keeps the date it was made with.
Redate_Kept(p) == p

\* Every address gets a packet of its own date.
Redate(p) == [p EXCEPT !.issued = now]

\* One of the other clients answers, or the request times out.
SendToOther ==
    /\ left > 1
    /\ draft' = Redate(draft)
    /\ left' = left - 1
    /\ UNCHANGED <<now, epoch, sent, flying, waiting, outcome, up, busy, queue, mem, disk, used>>

Send ==
    /\ left = 1
    /\ draft' = Redate(draft)
    /\ left' = 0
    /\ sent' = sent \cup {draft'}
    /\ flying' = flying \cup {draft'}
    /\ waiting' = waiting \cup {draft'}
    /\ UNCHANGED <<now, epoch, outcome, up, busy, queue, mem, disk, used>>

\* No connection, or no answer within 30 seconds.  A packet that has been
\* queued stays in the queue.
GiveUp(p) ==
    /\ p \in waiting
    /\ waiting' = waiting \ {p}
    /\ flying' = flying \ {p}
    /\ outcome' = [outcome EXCEPT ![p.master] = "failed"]
    /\ UNCHANGED <<now, sender, up, busy, queue, mem, disk, used>>

-----------------------------------------------------------------------------
(* The client *)

\* Mutant: the channel has no capacity.
Enqueue_Unbounded(p) ==
    /\ up
    /\ queue' = Append(queue, p)

\* migrationHandler puts the request into the channel when there is room.
Enqueue(p) ==
    /\ up
    /\ Len(queue) < QueueCap
    /\ queue' = Append(queue, p)

Deliver(p) ==
    /\ p \in flying
    /\ Enqueue(p)
    /\ flying' = flying \ {p}
    /\ UNCHANGED <<now, sender, waiting, outcome, up, busy, mem, disk, used>>

\* An announcement arrives again.
DeliverCopy(p) ==
    /\ p \in sent
    /\ used.copies < MaxCopies
    /\ used' = [used EXCEPT !.copies = @ + 1]
    /\ Enqueue(p)
    /\ UNCHANGED <<now, sender, flying, waiting, outcome, up, busy, mem, disk>>

\* The sender reads the answer, if it still waits.
Answer(p, result) ==
    /\ waiting' = waiting \ {p}
    /\ outcome' = IF p \in waiting THEN [outcome EXCEPT ![p.master] = result] ELSE outcome

\* Mutant: an announcement may be older than the last one.
Fresh_AnyOrder(p) ==
    LET local == now + Skew IN
    /\ p.issued >= local - 5 /\ p.issued <= local + 1
    /\ p.issued # mem.last

\* Not older than five minutes, at most one ahead, later than the last one.
Fresh(p) ==
    LET local == now + Skew IN
    /\ p.issued >= local - 5 /\ p.issued <= local + 1
    /\ p.issued > mem.last

\* The event loop takes the next request.
Take ==
    /\ up /\ busy = 0
    /\ queue # <<>>
    /\ queue' = Tail(queue)

\* applyMigration, then register() and pull() with the new address.
Apply ==
    LET p == Head(queue) IN
    /\ Take
    /\ Fresh(p)
    /\ mem' = [master |-> p.master, last |-> p.issued]
    /\ disk' = mem'
    /\ busy' = MaxBusy
    /\ Answer(p, "delivered")
    /\ UNCHANGED <<now, sender, flying, up, used>>

Reject ==
    /\ Take
    /\ ~Fresh(Head(queue))
    /\ Answer(Head(queue), "rejected")
    /\ UNCHANGED <<now, sender, flying, up, busy, mem, disk, used>>

\* Mutant: the error is dropped.
SaveFails_AnswersOk ==
    /\ Take
    /\ Fresh(Head(queue))
    /\ used.faults < MaxFaults
    /\ used' = [used EXCEPT !.faults = @ + 1]
    /\ Answer(Head(queue), "delivered")
    /\ UNCHANGED <<now, sender, flying, up, busy, mem, disk>>

\* cfg.Save fails and leaves the file as it was: the configuration in memory
\* is put back.
SaveFails ==
    /\ Take
    /\ Fresh(Head(queue))
    /\ used.faults < MaxFaults
    /\ used' = [used EXCEPT !.faults = @ + 1]
    /\ Answer(Head(queue), "rejected")
    /\ UNCHANGED <<now, sender, flying, up, busy, mem, disk>>

\* A ticker fires; select may prefer it to a waiting request.
Work ==
    /\ up /\ busy = 0
    /\ used.work < MaxWork
    /\ used' = [used EXCEPT !.work = @ + 1]
    /\ busy' = MaxBusy
    /\ UNCHANGED <<now, sender, flying, waiting, outcome, up, queue, mem, disk>>

WorkDone ==
    /\ up /\ busy > 0
    /\ busy' = 0
    /\ UNCHANGED <<now, sender, flying, waiting, outcome, up, queue, mem, disk, used>>

\* The process ends: the requests in the channel are gone, and their senders
\* give up.
Crash ==
    /\ up
    /\ used.faults < MaxFaults
    /\ used' = [used EXCEPT !.faults = @ + 1]
    /\ up' = FALSE
    /\ busy' = 0
    /\ queue' = <<>>
    /\ UNCHANGED <<now, sender, flying, waiting, outcome, mem, disk>>

\* RunClient: the handler listens before the first register() and pull().
Restart ==
    /\ ~up
    /\ up' = TRUE
    /\ mem' = disk
    /\ busy' = MaxBusy
    /\ UNCHANGED <<now, sender, flying, waiting, outcome, queue, disk, used>>

\* A minute passes.  No request waits longer than its timeout, and an idle
\* event loop does not leave a request in the channel.
Tick ==
    /\ now < MaxTime
    /\ \A p \in waiting : p.issued = now
    /\ ~(up /\ busy = 0 /\ queue # <<>>)
    /\ now' = now + 1
    /\ busy' = IF busy = 0 THEN 0 ELSE busy - 1
    /\ UNCHANGED <<sender, flying, waiting, outcome, up, queue, mem, disk, used>>

-----------------------------------------------------------------------------

Next ==
    \/ Promote \/ SendToOther \/ Send \/ Tick
    \/ \E p \in sent : GiveUp(p) \/ Deliver(p) \/ DeliverCopy(p)
    \/ Apply \/ Reject \/ SaveFails \/ Work \/ WorkDone \/ Crash \/ Restart

Spec == Init /\ [][Next]_vars

\* The event loop goes on when a request has come and its work is done.
FairSpec == Spec /\ WF_vars(Apply \/ Reject) /\ WF_vars(WorkDone)

-----------------------------------------------------------------------------

R == INSTANCE Redirection WITH address <- disk.master

\* The configured address only moves to later masters, through copies of old
\* announcements, announcements that overtake each other, restarts and
\* failed writes (applyMigration's comparison with LastMigration, and its
\* being saved with the address).
Redirects == R!Spec

\* The running client uses the address and the date that it would have after
\* a restart (the rollback of applyMigration).
MemIsDisk == up => mem = disk

\* "migration packet delivered" in the log of the new master means that the
\* client follows it, or a later one, for good: the answer is given after
\* the file was saved.
DeliveredIsSaved == \A k \in Epochs : outcome[k] = "delivered" => disk.master >= k

\* The handler has queued an announcement of master k whose sender waits for
\* the answer, or which is of this minute.
Queued(k) ==
    \E i \in DOMAIN queue :
        queue[i].master = k /\ (queue[i] \in waiting \/ queue[i].issued = now)

\* An announcement that the handler has queued is applied, unless the process
\* ends or the file cannot be written: it is still fresh when the event loop
\* gets to it, however many clients were served before it, whatever else is
\* in the channel, and although the sender may have given up (each packet is
\* dated when it is sent).
QueuedIsApplied ==
    \A k \in Epochs :
        (epoch = k /\ Queued(k)) ~> (disk.master = k \/ epoch # k \/ used.faults > 0)

=============================================================================
