-------------------------- MODULE MigrationProofs --------------------------
(***************************************************************************)
(* Proofs about Migration: for every skew, queue length, number of clients *)
(* and number of promotions, the client's address moves forward only, the  *)
(* copy in memory is the one on disk, and an announcement reported as      *)
(* delivered has been saved.                                               *)
(***************************************************************************)
EXTENDS Migration, TLAPS

\* A step goes to Zenon unless it names other provers, which are tried in turn.
USE ZenonT(30)

\* What the proofs use of the state's types.
Typed ==
    /\ now \in Nat /\ epoch \in 0 .. MaxEpoch
    /\ draft \in Packets
    /\ sent \in SUBSET Packets /\ flying \subseteq sent /\ waiting \subseteq sent
    /\ outcome \in [Epochs -> {"none", "delivered", "rejected", "failed"}]
    /\ queue \in Seq(Packets) /\ \A i \in 1 .. Len(queue) : queue[i] \in sent
    /\ mem \in Configs /\ disk \in Configs

\* Announcements are dated in the order of their masters, the one being
\* written included.
Dated ==
    /\ draft.master = epoch
    /\ \A p \in sent : p.master <= epoch /\ p.issued <= now
    /\ \A p \in sent : p.master < epoch => p.issued < now
    /\ \A p, q \in sent : p.master < q.master => p.issued < q.issued

\* The date in the configuration shuts out the announcements of the masters
\* before the configured one.
Guarded ==
    /\ disk.master <= epoch
    /\ \A p \in sent : p.master < disk.master => p.issued <= disk.last

IInv == Typed /\ Dated /\ Guarded /\ MemIsDisk /\ DeliveredIsSaved

-----------------------------------------------------------------------------

\* The initial state: nothing has been sent.
LEMMA InitIInv == Init => IInv
BY MigrationAssumption, SMT, Z3 DEF Init, IInv, Typed, Dated, Guarded, MemIsDisk, DeliveredIsSaved, Packets, Configs, Epochs

\* A promotion dates nothing yet, and time moves on.
LEMMA PromoteIInv == IInv /\ Promote => IInv'
<1> SUFFICES ASSUME IInv, Promote PROVE IInv'
    OBVIOUS
<1> USE MigrationAssumption
<1>1. Typed'
    BY SMT, Z3 DEF IInv, Typed, Promote, Packets, Epochs
<1>2. Dated'
    BY SMT, Z3 DEF IInv, Typed, Dated, Promote, Packets
<1>3. Guarded'
    BY SMT, Z3 DEF IInv, Typed, Guarded, Promote, Packets, Configs
<1>4. MemIsDisk' /\ DeliveredIsSaved'
    BY DEF IInv, MemIsDisk, DeliveredIsSaved, Promote, Epochs
<1>. QED  BY <1>1, <1>2, <1>3, <1>4 DEF IInv

\* Writing or sending a packet: it is dated now, later than those of the
\* masters before.
LEMMA SendIInv == IInv /\ (SendToOther \/ Send) => IInv'
<1> SUFFICES ASSUME IInv, SendToOther \/ Send PROVE IInv'
    OBVIOUS
<1>1. CASE SendToOther
  <2>1. Typed' /\ Dated'
    BY <1>1, SMT, Z3 DEF IInv, Typed, Dated, SendToOther, Redate, Packets
  <2>2. Guarded' /\ MemIsDisk' /\ DeliveredIsSaved'
    BY <1>1 DEF IInv, Guarded, MemIsDisk, DeliveredIsSaved, SendToOther
  <2>. QED  BY <2>1, <2>2 DEF IInv
<1>2. CASE Send
  <2>1. /\ draft' \in Packets /\ draft'.master = epoch /\ draft'.issued = now
        /\ sent' = sent \cup {draft'}
    BY <1>2, SMT, Z3 DEF IInv, Typed, Dated, Send, Redate, Packets
  <2>2. Typed'
    BY <1>2, <2>1 DEF IInv, Typed, Send
  <2>3. Dated'
    BY <1>2, <2>1, SMT, Z3 DEF IInv, Typed, Dated, Send, Packets
  <2>4. Guarded' /\ MemIsDisk' /\ DeliveredIsSaved'
    BY <1>2, <2>1, SMT, Z3 DEF IInv, Typed, Guarded, MemIsDisk, DeliveredIsSaved, Send, Configs
  <2>. QED  BY <2>2, <2>3, <2>4 DEF IInv
<1>. QED  BY <1>1, <1>2

\* A sender that gives up logs so; nothing else depends on it.
LEMMA GiveUpIInv == ASSUME NEW p \in sent PROVE IInv /\ GiveUp(p) => IInv'
<1> SUFFICES ASSUME IInv, GiveUp(p) PROVE IInv'
    OBVIOUS
<1>1. Typed'
    BY DEF IInv, Typed, GiveUp, sender
<1>2. Dated' /\ Guarded' /\ MemIsDisk'
    BY DEF IInv, Dated, Guarded, MemIsDisk, GiveUp, sender
<1>3. DeliveredIsSaved'
    BY DEF IInv, Typed, DeliveredIsSaved, GiveUp
<1>. QED  BY <1>1, <1>2, <1>3 DEF IInv

\* What is queued has been sent.
LEMMA EnqueueIInv ==
    ASSUME NEW p \in sent PROVE IInv /\ (Deliver(p) \/ DeliverCopy(p)) => IInv'
<1> SUFFICES ASSUME IInv, Deliver(p) \/ DeliverCopy(p) PROVE IInv'
    OBVIOUS
<1>1. /\ queue' = Append(queue, p)
      /\ flying' \subseteq flying
      /\ UNCHANGED <<now, epoch, draft, sent, waiting, outcome, up, mem, disk>>
    BY DEF Deliver, DeliverCopy, Enqueue, sender
<1>2. Typed'
  <2>1. queue' \in Seq(Packets) /\ \A i \in 1 .. Len(queue') : queue'[i] \in sent
    BY <1>1, SMT, Z3 DEF IInv, Typed
  <2>. QED  BY <1>1, <2>1 DEF IInv, Typed
<1>3. Dated' /\ Guarded' /\ MemIsDisk' /\ DeliveredIsSaved'
    BY <1>1 DEF IInv, Dated, Guarded, MemIsDisk, DeliveredIsSaved
<1>. QED  BY <1>2, <1>3 DEF IInv

\* The request the event loop takes is an announcement that was sent, and
\* the rest of the channel still is.
LEMMA TakeFacts ==
    ASSUME Typed, Take
    PROVE  /\ Head(queue) \in sent
           /\ queue' \in Seq(Packets)
           /\ \A i \in 1 .. Len(queue') : queue'[i] \in sent
<1>1. queue \in Seq(Packets) /\ queue # <<>> /\ queue' = Tail(queue)
    BY DEF Typed, Take
<1>2. Len(queue) \in Nat /\ Len(queue) > 0 /\ Head(queue) = queue[1]
    BY <1>1, SMT, Z3
<1>3. /\ queue' \in Seq(Packets) /\ Len(queue') = Len(queue) - 1
      /\ \A i \in 1 .. Len(queue') : queue'[i] = queue[i + 1]
    BY <1>1, SMT, Z3
<1>. QED  BY <1>2, <1>3, SMT, Z3 DEF Typed

\* A fresh announcement is not from a master before the configured one.
LEMMA FreshIsLater ==
    ASSUME IInv, up, NEW p \in sent, Fresh(p)
    PROVE  p.master >= disk.master
<1>1. mem = disk
    BY DEF IInv, MemIsDisk
<1>2. p.issued > mem.last
    BY DEF Fresh
<1>3. p \in Packets /\ disk \in Configs /\ (p.master < disk.master => p.issued <= disk.last)
    BY DEF IInv, Typed, Guarded
<1>. QED  BY <1>1, <1>2, <1>3, SMT, Z3 DEF Packets, Configs

\* Applying an announcement moves the address forward, and what the sender
\* is told is true.
LEMMA ApplyIInv == IInv /\ Apply => IInv'
<1> SUFFICES ASSUME IInv, Apply PROVE IInv'
    OBVIOUS
<1> DEFINE p == Head(queue)
<1>1. /\ p \in sent /\ up /\ Fresh(p)
      /\ queue' \in Seq(Packets) /\ \A i \in 1 .. Len(queue') : queue'[i] \in sent
    BY TakeFacts DEF IInv, Apply, Take
<1>2. p.master >= disk.master
    BY <1>1, FreshIsLater
<1>3. /\ mem' = [master |-> p.master, last |-> p.issued]
      /\ disk' = mem'
      /\ waiting' = waiting \ {p}
      /\ outcome' = IF p \in waiting THEN [outcome EXCEPT ![p.master] = "delivered"] ELSE outcome
      /\ UNCHANGED <<now, epoch, draft, sent, flying>>
    BY DEF Apply, Answer, sender
<1> HIDE DEF p
<1>4. p \in Packets /\ p.master \in Nat /\ p.issued \in Int /\ p.master <= epoch
    BY <1>1 DEF IInv, Typed, Dated, Packets
<1>5. p.master \in Epochs
    BY <1>4, MigrationAssumption, SMT, Z3 DEF IInv, Typed, Epochs
<1>6. Typed'
    BY <1>1, <1>3, <1>4, <1>5 DEF IInv, Typed, Configs
<1>7. Dated'
    BY <1>3 DEF IInv, Dated
<1>8. Guarded'
  <2>1. disk'.master = p.master /\ disk'.last = p.issued /\ epoch' = epoch /\ sent' = sent
    BY <1>3
  <2>2. \A q \in sent : q \in Packets /\ (q.master < p.master => q.issued < p.issued)
    BY <1>1 DEF IInv, Typed, Dated
  <2>. QED  BY <1>4, <2>1, <2>2, SMT, Z3 DEF Packets, Guarded
<1>9. MemIsDisk'
    BY <1>3 DEF MemIsDisk
<1>10. DeliveredIsSaved'
  <2> SUFFICES ASSUME NEW k \in Epochs, outcome'[k] = "delivered" PROVE disk'.master >= k
    BY DEF DeliveredIsSaved
  <2>1. CASE k = p.master
    BY <1>3, <1>4, <2>1, SMT, Z3
  <2>2. CASE k # p.master
    <3>1. outcome[k] = "delivered"
      BY <1>3, <1>5, <2>2 DEF IInv, Typed
    <3>2. disk.master >= k
      BY <3>1 DEF IInv, DeliveredIsSaved
    <3>. QED  BY <1>2, <1>3, <1>4, <3>2, MigrationAssumption, SMT, Z3 DEF IInv, Typed, Configs, Epochs
  <2>. QED  BY <2>1, <2>2
<1>. QED  BY <1>6, <1>7, <1>8, <1>9, <1>10 DEF IInv

\* A refused announcement, or one that could not be saved, changes nothing
\* but the channel and the sender's log.
LEMMA RefuseIInv == IInv /\ (Reject \/ SaveFails) => IInv'
<1> SUFFICES ASSUME IInv, Reject \/ SaveFails PROVE IInv'
    OBVIOUS
<1> DEFINE p == Head(queue)
<1>1. /\ p \in sent
      /\ queue' \in Seq(Packets) /\ \A i \in 1 .. Len(queue') : queue'[i] \in sent
    BY TakeFacts DEF IInv, Reject, SaveFails
<1>2. /\ waiting' = waiting \ {p}
      /\ outcome' = IF p \in waiting THEN [outcome EXCEPT ![p.master] = "rejected"] ELSE outcome
      /\ UNCHANGED <<now, epoch, draft, sent, flying, up, mem, disk>>
    BY DEF Reject, SaveFails, Answer, sender
<1> HIDE DEF p
<1>3. Typed'
    BY <1>1, <1>2 DEF IInv, Typed
<1>4. Dated' /\ Guarded' /\ MemIsDisk'
    BY <1>2 DEF IInv, Dated, Guarded, MemIsDisk
<1>5. DeliveredIsSaved'
    BY <1>2 DEF IInv, Typed, DeliveredIsSaved
<1>. QED  BY <1>3, <1>4, <1>5 DEF IInv

\* The client's own work, its end and its start, and time.
LEMMA OtherIInv == IInv /\ (Work \/ WorkDone \/ Crash \/ Restart \/ Tick) => IInv'
<1> SUFFICES ASSUME IInv, Work \/ WorkDone \/ Crash \/ Restart \/ Tick PROVE IInv'
    OBVIOUS
<1>1. /\ UNCHANGED <<epoch, draft, sent, flying, waiting, outcome, disk>>
      /\ queue' = queue \/ queue' = <<>>
      /\ (up' = up /\ mem' = mem) \/ (up' = FALSE /\ mem' = mem) \/ mem' = disk
      /\ now' = now \/ now' = now + 1
    BY DEF Work, WorkDone, Crash, Restart, Tick, sender
<1>2. Typed'
  <2>1. queue' \in Seq(Packets) /\ \A i \in 1 .. Len(queue') : queue'[i] \in sent
    <3>1. CASE queue' = queue
      BY <3>1 DEF IInv, Typed
    <3>2. CASE queue' = <<>>
      BY <3>2, SMT, Z3
    <3>. QED  BY <1>1, <3>1, <3>2
  <2>2. now' \in Nat /\ mem' \in Configs
    BY <1>1, SMT, Z3 DEF IInv, Typed
  <2>. QED  BY <1>1, <2>1, <2>2 DEF IInv, Typed
<1>3. Dated'
    BY <1>1, SMT, Z3 DEF IInv, Typed, Dated, Packets
<1>4. Guarded' /\ DeliveredIsSaved'
    BY <1>1 DEF IInv, Guarded, DeliveredIsSaved
<1>5. MemIsDisk'
    BY <1>1 DEF IInv, MemIsDisk
<1>. QED  BY <1>2, <1>3, <1>4, <1>5 DEF IInv

LEMMA NextIInv == IInv /\ [Next]_vars => IInv'
<1> SUFFICES ASSUME IInv, [Next]_vars PROVE IInv'
    OBVIOUS
<1>1. CASE UNCHANGED vars
    BY <1>1 DEF IInv, Typed, Dated, Guarded, MemIsDisk, DeliveredIsSaved, vars, sender
<1>2. CASE Next
    BY <1>2, PromoteIInv, SendIInv, GiveUpIInv, EnqueueIInv, ApplyIInv, RefuseIInv, OtherIInv DEF Next
<1>. QED  BY <1>1, <1>2

-----------------------------------------------------------------------------

\* The inductive invariant holds throughout.
THEOREM MigrationInvariant == Spec => []IInv
BY InitIInv, NextIInv, PTL DEF Spec

\* The broadcast stays within its addresses, the event loop within its work,
\* and the channel within its capacity.
Bounded ==
    /\ left \in 0 .. Others + 1 /\ up \in BOOLEAN /\ busy \in 0 .. MaxBusy
    /\ Len(queue) <= QueueCap
    /\ used \in [work : Nat, faults : Nat, copies : Nat]

\* The channel: a handler puts a request into it when there is room.
LEMMA QueueBounded ==
    ASSUME IInv, Bounded, [Next]_vars PROVE Len(queue') <= QueueCap
<1>1. queue \in Seq(Packets) /\ Len(queue) <= QueueCap /\ QueueCap \in Nat
  BY MigrationAssumption DEF IInv, Typed, Bounded
<1>2. CASE \E p \in sent : Deliver(p) \/ DeliverCopy(p)
  <2>1. PICK p \in sent : Len(queue) < QueueCap /\ queue' = Append(queue, p)
    BY <1>2 DEF Deliver, DeliverCopy, Enqueue
  <2>. QED  BY <1>1, <2>1, SMT, Z3
<1>3. CASE Apply \/ Reject \/ SaveFails
  <2>1. queue # <<>> /\ queue' = Tail(queue)
    BY <1>3 DEF Apply, Reject, SaveFails, Take
  <2>. QED  BY <1>1, <2>1, SMT, Z3
<1>4. CASE queue' = <<>>
  BY <1>1, <1>4, SMT, Z3
<1>5. CASE queue' = queue
  BY <1>1, <1>5
<1>. QED
  BY <1>2, <1>3, <1>4, <1>5 DEF Next, Promote, SendToOther, Send, Tick, GiveUp, Work, WorkDone, Crash,
      Restart, vars

\* The other variables of Bounded.
LEMMA NextBounded ==
    ASSUME IInv, Bounded, [Next]_vars PROVE Bounded'
<1>1. /\ left \in Nat /\ left <= Others + 1 /\ busy \in Nat /\ busy <= MaxBusy
      /\ Others \in Nat /\ MaxBusy \in Nat
  BY MigrationAssumption, SMT, Z3 DEF Bounded
<1>2. left' \in 0 .. Others + 1
  <2>1. left' = left \/ left' = Others + 1 \/ left' = 0 \/ (left > 1 /\ left' = left - 1)
    BY DEF Next, Promote, SendToOther, Send, Tick, GiveUp, Deliver, DeliverCopy, Apply, Reject, SaveFails,
        Work, WorkDone, Crash, Restart, vars, sender
  <2>. QED  BY <1>1, <2>1, SMT, Z3
<1>3. busy' \in 0 .. MaxBusy
  <2>1. \/ busy' = busy \/ busy' = 0 \/ busy' = MaxBusy
        \/ busy' = IF busy = 0 THEN 0 ELSE busy - 1
    BY DEF Next, Promote, SendToOther, Send, Tick, GiveUp, Deliver, DeliverCopy, Apply, Reject, SaveFails,
        Work, WorkDone, Crash, Restart, vars
  <2>. QED  BY <1>1, <2>1, SMT, Z3
<1>4. up' \in BOOLEAN
  <2>1. up' = up \/ up' = TRUE \/ up' = FALSE
    BY DEF Next, Promote, SendToOther, Send, Tick, GiveUp, Deliver, DeliverCopy, Apply, Reject, SaveFails,
        Work, WorkDone, Crash, Restart, vars
  <2>. QED  BY <2>1 DEF Bounded
<1>5. used' \in [work : Nat, faults : Nat, copies : Nat]
  <2>1. \/ used' = used
        \/ used' = [used EXCEPT !.work = @ + 1]
        \/ used' = [used EXCEPT !.faults = @ + 1]
        \/ used' = [used EXCEPT !.copies = @ + 1]
    BY DEF Next, Promote, SendToOther, Send, Tick, GiveUp, Deliver, DeliverCopy, Apply, Reject, SaveFails,
        Work, WorkDone, Crash, Restart, vars
  <2>2. used \in [work : Nat, faults : Nat, copies : Nat]
    BY DEF Bounded
  <2>. QED  BY <2>1, <2>2, SMT, Z3
<1>. QED  BY <1>2, <1>3, <1>4, <1>5, QueueBounded DEF Bounded

\* Every variable keeps its type; in particular the channel never holds more
\* than its capacity.
THEOREM TypeCorrect == Spec => []TypeOK
<1>1. Init => Bounded
  <2> SUFFICES ASSUME Init PROVE Bounded
    OBVIOUS
  <2>1. left \in 0 .. Others + 1 /\ busy \in 0 .. MaxBusy /\ Len(queue) <= QueueCap
    BY MigrationAssumption, SMT, Z3 DEF Init
  <2>2. used \in [work : Nat, faults : Nat, copies : Nat]
    BY SMT, Z3 DEF Init
  <2>. QED  BY <2>1, <2>2 DEF Init, Bounded
<1>2. IInv /\ Bounded /\ [Next]_vars => Bounded'
    BY NextBounded
<1>3. IInv /\ Bounded => TypeOK
  <2> SUFFICES ASSUME IInv, Bounded PROVE TypeOK
    OBVIOUS
  <2>1. epoch \in Nat
    BY MigrationAssumption, SMT, Z3 DEF IInv, Typed
  <2>. QED  BY <2>1 DEF IInv, Typed, Bounded, TypeOK
<1>. QED  BY <1>1, <1>2, <1>3, MigrationInvariant, PTL DEF Spec

\* The running client's configuration is the one on disk, and "delivered" is
\* true, after any number of promotions, failed writes and restarts.
THEOREM MigrationIsSaved == Spec => [](MemIsDisk /\ DeliveredIsSaved)
<1>1. IInv => MemIsDisk /\ DeliveredIsSaved
    BY DEF IInv
<1>. QED  BY <1>1, MigrationInvariant, PTL

\* Only Promote changes the count of masters, and only Apply the address,
\* to a later master or to the same.
LEMMA NextRedirects ==
    IInv /\ [Next]_vars => [R!Promote \/ R!Redirect]_<<epoch, disk.master>>
<1> SUFFICES ASSUME IInv, [Next]_vars PROVE [R!Promote \/ R!Redirect]_<<epoch, disk.master>>
    OBVIOUS
<1>1. CASE Promote
    BY <1>1 DEF Promote, R!Promote
<1>2. CASE Apply
  <2> DEFINE p == Head(queue)
  <2>1. p \in sent /\ up /\ Fresh(p)
    BY <1>2, TakeFacts DEF IInv, Apply, Take
  <2>2. p.master >= disk.master
    BY <2>1, FreshIsLater
  <2>3. disk'.master = p.master /\ epoch' = epoch
    BY <1>2 DEF Apply, sender
  <2> HIDE DEF p
  <2>4. p.master \in Nat /\ p.master <= epoch
    BY <2>1 DEF IInv, Typed, Dated, Packets
  <2>5. disk.master \in Nat /\ epoch \in Nat
    BY MigrationAssumption, SMT, Z3 DEF IInv, Typed, Configs
  <2>. QED  BY <2>2, <2>3, <2>4, <2>5, SMT, Z3 DEF R!Redirect
<1>3. CASE UNCHANGED <<epoch, disk>>
    BY <1>3
<1>. QED
    BY <1>1, <1>2, <1>3 DEF Next, SendToOther, Send, Tick, GiveUp, Deliver, DeliverCopy, Reject, SaveFails,
        Work, WorkDone, Crash, Restart, sender, vars

\* The delivery of announcements implements Redirection: the address a
\* client is configured with only ever moves to a later promoted master.
THEOREM MigrationRedirects == Spec => Redirects
<1>1. Init => R!Init
    BY SMT, Z3 DEF Init, R!Init
<1>. QED  BY <1>1, NextRedirects, MigrationInvariant, PTL DEF Spec, Redirects, R!Spec

=============================================================================
