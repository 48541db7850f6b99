# NATSSL in TLA+

NATSSL is a certificate authority for a private network. One *master* holds the
Root CA and an SQLite database; *clients* enroll with it and pull an encrypted
snapshot of the database and a certificate revocation list (CRL), so that any of
them can be promoted when the master is lost. This directory models the master's
commands and requests, the clients, the replication between them, promotion and
the announcement of a new master, and the rules by which names, addresses and
certificates are accepted.

## The system

| Part | State | Operations | Modelled |
|---|---|---|---|
| Store (`store.go`) | tables `clients`, `certs`, `revoked`, `blacklist`, `state` | one statement or transaction per method | `Store` |
| Commands (`admin.go`, `ca.go`) | | `--revoke --reissue --issue --deregister --block --unblock` | `Master` |
| Requests (`server.go`) | | `/acme/register`, `/acme/sign-csr`, `/sync/cache`, `/sync/crl` | `Master` |
| Start of the master (`server.go`) | | `RunMaster` | `Master`, `Activation` |
| Cache (`server.go`, `cache.go`) | `network-cache.enc` and its lock | `RebuildEncryptedCache` | `Master` |
| CRL (`crl.go`) | `root-ca.crl` and its lock | `WriteCRL`, `refreshCRL` | `Master` |
| Issued pairs (`ca.go`) | `issued/<name>.key`, `.crt`, one lock per name | `lockIssuance`, `writeIssuedFiles` | `Master` |
| Client pull (`client.go`, `cache.go`, `crl.go`) | the client's cache and CRL | `pullOnce`, `acceptCache`, `acceptCRL` | `Replication` |
| Client identity (`identity.go`, `register.go`) | identity key and certificate | `ensureClientIdentity`, `RegisterWithMaster` | `Replication` |
| Promotion (`promote.go`, `store.go`) | everything on the new master | `RunPromote`, `restoreMasterState`, `RestoreSnapshot` | `Replication` (the network), `Activation` (the host) |
| Bootstrap (`server.go`) | CA files, configuration, database, cache, CRL | `RunBootstrap` | `Activation`; its result is `Init` elsewhere |
| Migration (`migrate.go`, `promote.go`) | the client's address and `last_migration` | `broadcastMigration`, `migrationHandler`, `applyMigration` | `Migration` |
| Client-side issuance (`client_issue.go`) | `issued/` on the client | `RunClientIssue`, `enforceLoopbackOnly`, `SignCSR` | `ClientIssue` |
| Recognition of the master (`netutil.go`, `client.go`) | the client's pin, Root CA and address | `verifyMasterPin`, `fetchAndInstallRootCA` | `Pinning` |
| Names, serials, addresses (`ca.go`, `admin.go`, `config.go`, `netutil.go`) | none | `canonicalTarget`, `validIssuanceTarget`, `sanitizeName`, `normalizeSerial`, `masterURL` | `Naming` |

**Interaction.** Commands are operating-system processes; requests are
goroutines of the master. They share the database and the files. SQLite makes a
statement or a transaction atomic. Beyond that only `flock` files keep them
apart: one for the cache, one for the CRL, one for each issued base name, one
each for bootstrap and promotion. A file is replaced by a rename, so a reader
sees the old or the new one. A client is one event loop that registers, pulls and
applies announcements one after another, plus a handler that queues
announcements for it.

**What is hard.** Two commands may publish in the wrong order. A command may
stop between its database write and its files, or between two files. The clock
that floors CRL numbers may be set back. The database may be lost while the
published files survive. A check may be stale when it is used. An answer may be
lost after the master has acted on it. A promoted host starts from what it
pulled last, while other clients may have pulled more. Announcements are queued,
abandoned, copied and overtaken.

## The modules

- `Store`: the database as a record and each statement as an operator.
- `Master`: the processes. `pc[p]` is the next step of process `p`; a step is one
  statement, one lock operation or one file operation. `cmd[p]` is what it was
  asked to do, `loc[p]` what it holds in memory (a CRL or a snapshot being
  built, the previous key). Starting a command includes the check that may
  refuse it; a refused command changes nothing and is no step.
- `Publication`: the abstract specification of the master. The tables go through
  versions; cache and CRL each show one, move forward only, the cache under
  growing sequence numbers; a write is acknowledged when the files show it.
- `Replication`: masters and clients on several hosts, over `Store`. `pc[h]` is
  the request the client's event loop makes next, or `serving`. `cacheFile`,
  `crlFile`, `identity`, `root`, `config` and `db` are the files of each host.
- `Activation`: bootstrap, promotion and master start on one data directory,
  write by write, concurrent and interrupted.
- `Migration`: the way of an announcement to one client. `queue` is the channel,
  `mem` and `disk` the configuration in memory and saved, `outcome` what the
  promoted host logs. `Redirection` is what it promises: the address only moves
  to later masters.
- `ClientIssue`: `--mode=client --issue`, the three checks of the names and the
  two files.
- `Pinning`: which chains of certificates a client accepts while masters,
  announcements and the operator's edits change its configuration.
- `Naming`: functions on texts, checked against independent definitions for
  every short text and proved to meet them for texts of any length. A behaviour
  types a text character by character; a character stands for a class the
  functions treat alike.
- `MCMaster`, `MCReplication`, `MCActivation`, `MCMigration`, `MCClientIssue`,
  `MCNaming`: constants and symmetries for TLC. `Pinning` needs none.
- `MasterProofs`: the theorems about `Master`: its types, the refinement of
  `Publication`, issued pairs, CRL numbers, certificates handed out, locks, and
  what is published once everything has ended.
- `ReplicationProofs`, `ActivationProofs`, `MigrationProofs`, `ClientIssueProofs`,
  `PinningProofs`: the theorems about these modules.
- `NamingProofs`: facts about texts and recursion over them, and the theorems
  about serials and addresses. `TargetProofs`: over `NamingProofs`, the theorems
  about targets.

**How the modules fit together.** Each of `Replication`, `Activation` and
`Migration` makes atomic what another one splits up. A command or a request on
the master is one step in `Replication`; `Master` has its steps, and `Publishes`
is the reason the coarser step is sound: the published files move forward and
cover what was acknowledged. `--revoke` alone stays three steps, the record, the
CRL and the cache, because a client can pull between its two files and because a
command that stops after the record is not repeated. A promotion is one step in `Replication`;
`Activation` has its writes, and shows that a host in service has finished them
all. `Replication`'s `Redirect` moves a client to a later master at any time;
`Migration` shows (`Redirects`) that announcements do nothing else.

### Master

History variables. `version` counts table writes and dates every snapshot and
CRL; `acked` is the latest write whose command reported success; `minted` and
`delivered` say what the CA signed and what was handed out. None of them guards
a step of the code, except that `minted` makes serials fresh (`newSerial` draws
128 random bits) and that a request presents a `delivered` identity.

Failure. `Abort(p)` stops a process at any step: a crash, or an error the code
returns. Either way what is done stays done, and the flocks go with the file
descriptors. `RollbackKey` is the one error path that does something: a
certificate that cannot be written takes the new key back. A process that dies
between the two writes leaves a new key with an old certificate; `used.torn`
counts these, and `OnDiskPairMatches` is about behaviours without one.

Abstractions, and what they cost:

- Time stamps, SANs, PEM bodies, encryption and signatures are left out. The
  cache on disk always verifies, so `RaiseSequence` is unconditional.
- `refreshCRL` rewrites the CRL or not, by choice: its expiry is not modelled.
- `authorizeClient` refuses at its first wrong answer, not after all four
  queries; the queries change nothing.
- A lost database is followed by a start of the master, with nothing running; it
  counts as a command. A command as the first to open the new file is not
  modelled.
- `clock` is the highest reading so far. A clock set back may give any earlier
  one.
- A crash of the master is the abort of its handlers one by one, and may be
  followed by `RunMaster`.

`Init` is a bootstrapped master after its first start. Bootstrap and start each
publish both files, so both numbers are 2.

### Replication

`acked`, `synced`, `registered` and `epoch` are history: what a master has
acknowledged, what had been acknowledged when a client's last complete pull
began, which master accepted the last registration, and the order of promotions.

- Every file verifies under the one Root CA. A key is named by the serial of the
  certificate made for it, so a key pair loads when the two names agree.
- Identities and CRLs do not expire; a CRL is renewed by choice.
- Two masters at once are excluded: the documents ask the operator to fence the
  old one (`README.md:447`), and a fenced master does not come back. The probes
  of `RunPromote` are the condition that no host serves. The client service on
  the promoted host is stopped, as the same line asks.
- `Size` counts records; `MaxBody` stands for the 1 MiB of `readBounded`.
- All hosts read one clock for CRL numbers.
- Hosts in `Enrolled` start with an identity the founder has issued; the others
  enroll. Crashes and lost messages have a bound each.
- Commands are given on a master that serves. They need not be, but without it
  no client sees a difference.
- `--revoke` takes any serial: one that was issued, the identity of a client
  included, or one the master has never seen, for which the code only warns.
  `StopRevoke` ends it between any two of its steps; the next attempt is refused,
  since the serial is recorded.
- A client whose identity is revoked is registered by its next ping and refused on
  the control port for as long as it keeps the identity files.
- A ping always raises the sequence number, so pings are bounded by that number.
  Beyond `PingBound` only pings that change something else are taken, or that the
  master needs to pass a number another host holds (`Behind`).

### Activation

A Root CA, its recovery key and its seed have one number; the tables, a CRL and
a snapshot are the kinds of records in them. `Stop` ends a command between any
two writes, killed or by an error. `WriteCRL` and `RebuildEncryptedCache` are one
step, since their own interleavings are those of `Master`. Every command may be
given in every configured mode, since `--mode` overrides it and
`natssl-master.service` starts the program with `--mode=master`. `loc.data` and
`mem` are a command's copies; `mem.mode` is the mode it found in the
configuration.

### Migration

One client, the last of its broadcast, with `Others` before it. Time is in
minutes: requests time out within one, an announcement is accepted for five. The
clocks of the masters agree and the client's is off by `Skew`. `MaxBusy` is how
long the client's event loop may be away; requests to a master that is down end
in 60 seconds. Edits of the address by hand are left to `Replication`.

### ClientIssue, Pinning, Naming

- In `ClientIssue` a name is what it stands for and whether it has blanks or
  upper case. The encryption of the key is left out. `StrayCSR` is any other CSR
  that an enrolled host sends. `torn` has the names at which a run stopped between
  its two files or two runs wrote at once, which no lock prevents; a later run
  that is alone at the name takes it out again.
- In `Pinning` no intermediate certificates exist, as none are ever issued, so
  `Verify` asks for a leaf signed by the anchor. A master certifies the addresses
  its interfaces have when it starts, any of the host's, possibly none: a failure
  of `localIPv4s` is ignored (`server.go:405`). `server_names` and the listen
  addresses, which only add names to the certificate, are left out.
- In `Naming` the limits 253 and 63 are the constants `MaxName` and `MaxLabel`,
  and what package `net` makes of a text are the constants `IPs`, the texts
  `ParseIP` reads, and `IPString`, the canonical text of each. The run takes the
  IPv6 addresses with `::` for `IPs`, as texts this short are no other address.
  `kind` says what is typed: a target over all characters, a longer one over few
  (`name`), a serial or an address. `Issue` has the flag `--localhost`: with it
  every target is accepted and the certificate is for the loopback names.

## What is checked

Run one with `tlc -config <run>.cfg <module>`.

| Module | Run | Shows |
|---|---|---|
| `MCMaster` | `revocation` | `--revoke`, `--reissue`, `--issue` for two names sharing a file, one failure, a clock that may be set back: acknowledged changes are in cache and CRL (`CacheCoversAcked`, `CRLCoversAcked`); the CRL keeps its revocations under growing numbers (`CRLMovesForward`); the certificate on disk is not a superseded one (`OnDiskNotSuperseded`) and fits its key (`OnDiskPairMatches`); a subject keeps a certificate that is not superseded (`SubjectKeepsActiveCert`); the processes never all wait for each other's locks (`NoDeadlock`) |
| | `registry` | all requests beside `--block`, `--unblock`, `--deregister`, `--revoke`, a master start and the loss of the database, one failure: `Publication` is implemented (`Publishes`), a certificate handed out is in the cache (`DeliveredIsPublished`), cache and CRL show the tables when everything has ended without a failure (`SettledIsPublished`), CRL numbers keep growing (`CRLMovesForward`) |
| | `progress` | every process ends, one failing (`EveryProcessEnds`); without a failure a recorded revocation reaches the CRL (`RevocationIsPublished`) |
| | `block_race` | *violated*: `BlockedStayOut` |
| | `revoke_retry` | *violated*: `RevocationReachesCRL`, under `RetrySpec` |
| `MCReplication` | `replication` | a client under a crash, a lost request or answer and a `--revoke` of any serial, which may stop half way: a complete pull brings every revocation acknowledged before it (`CacheCoversSynced`); a client whose registration was accepted is let in unless its identity is revoked (`RegisteredIsAuthorised`); an acknowledged revocation reaches every follower's CRL (`RevocationReachesFollowers`) |
| | `takeover` | a promoted master knows what its last complete pull covered (`PromotionKeepsSynced`), no file on any host goes back (`FilesMoveForward`), and the followers come to hold the tables and the revocations the new master publishes, also those ahead of it (`FollowersConverge`) |
| `MCActivation` | `activation` | concurrent, interrupted and repeated commands: the Root CA is never replaced (`RootNeverReplaced`), every cache opens with the configured recovery key (`CacheOpensWithConfigured`), a promoted host that is configured as a master serves and publishes the restored records (`ServesRestored`); repeating the command gets the host into service, except from two half-done states (`ActivationEnds`); the seed of a recovery key is shown unless a command stopped (`SeedGetsShown`) |
| `MCMigration` | `migration` | copies, reordering, crashes, failed writes: the address only moves on (`Redirects`), what is logged as delivered is saved (`DeliveredIsSaved`), a queued announcement is applied (`QueuedIsApplied`) |
| `MCNaming` | `names` | without `--localhost` the files tell the target (`FilesNameTarget`); the recorded subject is the same however it is spelled, and without `--localhost` it is the certified name (`SubjectIsCertified`); `--issue` accepts exactly the dotted names and IPs (`IssuesDottedNames`); a serial is found by every spelling of its number (`SerialIsItsNumber`); the URLs of both planes name the configured host and the right port (`URLNamesMaster`) |
| `MCClientIssue` | `client_issue` | the three checks agree but for blanks (`SubjectsPass`); what is installed is recorded (`InstalledIsRecorded`); certificate and key under a name are of one run, unless the last writes there stopped half way or overlapped (`IssuedPairMatches`) |
| `Pinning` | `pinning` | the client talks to masters of the pinned Root CA only (`ContactIsPinned`) and never gets a Root CA the operator has not named (`OnlyNamedRoots`) |

`TypeOK` is an invariant of `migration`, where it says that the channel keeps
within its capacity; in the other modules it is proved and not checked. Every
property of a passing run has a mutant: a changed definition, kept beside the
original as `<name>_<change>`, under which TLC finds the property violated.

**Disagreements with the documentation.**

- `block_race`. `/acme/register` reads the blacklist (`server.go:215`) and later
  inserts the client (`server.go:259`). A `--block` between them returns, and the
  client is then registered and blacklisted. `README.md:367` says the host
  "stays out until `--unblock`". Its requests are still refused, since
  `authorizeClient` reads the blacklist; the registry row and the snapshot are
  what is wrong.
- `revoke_retry`. `--revoke` writes the database first. If it stops before the
  CRL, the same command is refused as "already revoked" (`admin.go:207`), and the
  CRL stays without the serial until another revoking command, a start of the
  master or a refresh near expiry. `README.md:381` says that clients fetch the
  updated list on their next pull.

**Limits of the properties.** Where a property would fail, it is stated or
configured without the case. These are the cases; where constants are named, TLC
shows the behaviour with them.

- `CacheCoversSynced` is checked without a promotion. A promoted master may reach
  a sequence number that the old one had used, and `acceptCache` takes equal
  numbers for equal files (`cache.go:156`), where `docs/DEPLOYMENT.md:540` says
  "Freshness equals the last successful sync" (the constants of `takeover`, with
  `PingBound = 7`). The client catches up at the next rebuild
  (`FollowersConverge`).
- `RegisteredIsAuthorised` likewise (the constants of `takeover`, with
  `Enrolled = {c1}`). A client enrolled after the promoted host's
  last pull keeps its identity, which still verifies (`identity.go:31`). It
  registers with the new master at every ping and is refused on the control port.
  `register.go:53` says that re-registering lets the client survive a "DB reset".
  Removing the identity files by hand makes it enroll.
- `RegisteredIsAuthorised` excepts a revoked identity. The client checks its
  certificate against the Root CA only (`identity.go:31`), so it keeps an identity
  the master refuses and goes on to be registered by its pings.
- `RevocationReachesFollowers` is about acknowledged revocations. One whose command
  stopped after the record reaches the CRL with the next command or restart that
  writes one, or never (`revoke_retry`).
- It is also checked with answers below the limit. With
  `MaxBody = 3` it fails: an answer over 1 MiB is refused (`files.go:46`), and the
  cache is fetched before the CRL, so a network that outgrows the limit gets no
  more CRLs.
- `PromotionKeepsSynced` is about complete pulls. `--revoke` writes the CRL before
  the cache. A client that pulls in between has the revocation in its CRL only;
  promoted, it rebuilds the CRL from the snapshot (`promote.go:213`) and the
  revocation is gone, where `store.go:66` says "replicated so a promoted master
  keeps revocations". The command had not been acknowledged.
- `PromotionKeepsSynced` is also limited to the first promotion. A client that
  kept the old file under an equal number, as above, believes its pull complete;
  if it is the next to be promoted, a revocation that the first promoted master
  acknowledged is missing (the constants of `takeover`, with
  `MaxPromotions = 2`, `MaxCrashes = 2`, `MaxRefreshes = 0` and `PingBound = 8`).
- `FollowersConverge` speaks of what the files say, not of their numbers: every
  accepted ping makes the master publish the same tables under a new number, so a
  client's file is behind by a number again and again.
- `ServesRestored` is about masters that found themselves configured as one. A
  promotion that stops between saving the CA key and restoring the tables cannot be
  repeated (`promote.go:191`); the configuration still says `client`, but
  `natssl-master.service` forces the mode, and the unit serves with empty tables.
  `README.md:451` says that the tables are restored. `ActivationEnds` excepts the
  same state.
- `SeedGetsShown` excepts behaviours with a stop. A bootstrap that fails between
  saving the configuration (`server.go:97`) and printing leaves a master with a
  recovery key nobody has the seed of.
- `SubjectsPass` excepts a subject given with blanks around it: the master signs
  and records it, and `validateIssuedCertificate` then refuses it.
  The loopback names are all of 127.0.0.0/8, as in the code (`client_issue.go:40`,
  `server.go:147`); `README.md:201` names three.
- `IssuedPairMatches` excepts names where a run stopped between its two writes or
  two runs overlapped: the certificate of one stays with the key of the other
  until the next run.
- `FilesNameTarget`, and the second half of `SubjectIsCertified`, are about
  `--issue` without `--localhost`. With it the target is not checked
  (`ca.go:172`): it is recorded as the subject of a certificate for the loopback
  names, and two targets can have the same files.
- No property says that clients accept a promoted master at the address it
  announces. The address is taken from the interfaces during the promotion
  (`promote.go:74`) and the certificate names those the host has when the master
  starts (`server.go:405`), which may differ.
- An atomic transaction is an assumption of `Store`, not a result: that a failure
  leaves no half of `replaceCertificate` is SQLite's promise.

**Bounds.**

- `Master`: two processes at a time and three commands in a run: an ordering
  error of the publication needs two processes, and the third command observes
  what two left behind. One failure. All targets share one file, the case in which
  they interfere. `MaxTick = 1` bounds how far the clock advances between two
  CRLs; where `ClockSteps` is set it may also go back to any earlier reading.
- `Replication`: a master and one client that enrolls, with a crash or a stopped
  command, a lost message, a revocation of any serial and a change of the registry,
  and serials enough for three enrollments and one that is unknown; or a master and two
  enrolled clients, one of which is promoted while the other follows, with a crash
  and the revocation of an identity. `PingBound` lets the old master number its
  files past the ones the promoted host has.
- `Activation`: two commands at once, two interruptions, four Root CAs, more than
  the commands can use up.
- `Migration`: two promotions, ten minutes, which is more than the five an
  announcement lives, a queue of two, two faults, a copy.
- `ClientIssue`: two processes and two runs, one stray CSR.
- `Naming`: targets of up to four characters, serials of five, addresses of six and
  names of seven, over the classes that the function at hand tells apart, with
  limits scaled so that they are exceeded.
- `Pinning`: two hosts with two interfaces, two Root CAs, chains of up to two
  certificates; a leaf and its root are all a master sends.

In `revocation` and `registry` processes, serials and targets are symmetric, in
`client_issue` processes; runs with a liveness property use no symmetry.
`migration`, `names` and `client_issue` stop when their bounds are used up, so
they do not check deadlock; neither does `progress`, whose property says more,
namely that no process is stuck.

**Fairness.**

- `Master`: weak fairness of each process's steps: the kernel and the Go
  scheduler run every process, and SQLite waits for a busy database
  (`busy_timeout`). A lock request is one of these steps. Weak fairness suffices
  there because the number of commands is bounded; `flock` promises no order
  under endless contention, and none is claimed. Nobody is obliged to start a
  command, except in `RetrySpec`, where `--revoke` is given again while it is
  accepted.
- `Replication`: a process goes on, systemd restarts it, a request is answered or
  fails (`Proceed`, weak), and `--revoke` finishes (weak). A ticker's channel keeps
  a tick until it is taken and `select` chooses among the ready channels at random,
  so a ticker is not ignored for ever although the loop is busy in between
  (strong). Nobody is obliged to promote.
- `Activation`: a started command goes on, also one that waits for a lock that
  becomes free again and again, and the administrator repeats the command the
  host needs (strong, because both are disabled in between). The second is the
  hypothesis of `ActivationEnds`, not a claim about the code.
- `Migration`: the event loop takes a request when it is idle, and `register()`
  and `pull()` end (weak), because all their requests time out. Tickers are
  bounded by `MaxWork`.

## What is proved

For every value of the constants, from the named assumptions of the modules:

| Module | Theorem | States |
|---|---|---|
| `MasterProofs` | `TypeCorrect` | `Spec => []TypeOK` |
| | `CacheSafe` | `Spec => []CacheCoversAcked` |
| | `CRLSafe` | `Spec => []CRLCoversAcked` |
| | `MasterPublishes` | `Spec => Publishes`, the refinement |
| | `DiskIsNotSuperseded` | `Spec => []OnDiskNotSuperseded` |
| | `SubjectStaysCertified` | `Spec => []SubjectKeepsActiveCert` |
| | `DiskPairsMatch` | `Spec => []OnDiskPairMatches` |
| | `CRLsMoveForward` | `Spec => CRLMovesForward`, an action property |
| | `DeliveredStaysPublished` | `Spec => []DeliveredIsPublished` |
| | `NeverDeadlocked` | `Spec => []NoDeadlock` |
| | `SettlesPublished` | `Spec => []SettledIsPublished` |
| `ReplicationProofs` | `TypeCorrect` | `Spec => []TypeOK` |
| | `FilesOnlyMoveForward` | `Spec => FilesMoveForward`, an action property |
| | `PullsCoverAcked` | `Spec => [](used.promotions = 0 => CacheCoversSynced)` |
| | `PromotedKnowsAcked` | `Spec => [](used.promotions <= 1 => PromotionKeepsSynced)` |
| | `RegisteredGetsIn` | `Spec => [](used.promotions = 0 => RegisteredIsAuthorised)` |
| `ActivationProofs` | `TypeCorrect` | `Spec => []TypeOK` |
| | `CacheOpens` | `Spec => []CacheOpensWithConfigured` |
| | `RootIsKept` | `Spec => RootNeverReplaced`, an action property |
| | `PromotedServesRestored` | `Spec => []ServesRestored` |
| `MigrationProofs` | `TypeCorrect` | `Spec => []TypeOK` |
| | `MigrationIsSaved` | `Spec => [](MemIsDisk /\ DeliveredIsSaved)` |
| | `MigrationRedirects` | `Spec => Redirects`, the refinement |
| `ClientIssueProofs` | `TypeCorrect` | `Spec => []TypeOK` |
| | `ChecksAgree` | `Spec => []SubjectsPass` |
| | `FilesAreRecorded` | `Spec => []InstalledIsRecorded` |
| | `PairsMatch` | `Spec => []IssuedPairMatches` |
| `PinningProofs` | `ContactSafe` | `Spec => []ContactIsPinned` |
| | `RootsSafe` | `Spec => []OnlyNamedRoots` |
| `NamingProofs` | `SerialsAreNumbers` | `Spec => []SerialIsItsNumber` |
| | `URLsNameMaster` | `Spec => []URLNamesMaster` |
| `TargetProofs` | `CertifiesSubject` | `Spec => []SubjectIsCertified` |
| | `AcceptsDottedNames` | `Spec => []IssuesDottedNames` |
| | `FilesTellTarget` | `Spec => []FilesNameTarget` |

The three theorems of `ReplicationProofs` that count promotions say what the runs
check and no less: `replication` has no promotion and `takeover` one, and beyond
these numbers TLC finds counterexamples (*Limits of the properties*).

**Assumptions.** Each module names what it needs of its constants. Three say more
than types. `ReplicationAssumption` asks for distinct serials for the hosts that
start enrolled, since 128 random bits do not repeat, and for finitely many of
these hosts and of certificates issued before, so that the first snapshot has a size.
`PinningAssumption` asks that no fingerprint is the empty or a malformed pin.
`IPAssumption` is what the code relies on in package `net`: an address is written
with hexadecimal digits, colons and dots, in either case; `String` gives one text
per address, in lower case, which `ParseIP` reads as the same address and which
does not begin with a colon and a dot.

**Master.** Types alone are not inductive: a step needs to know that the command
at hand has the serial, subject or address it uses. `TypeInv` adds that
(`CmdOK`).

What is published says nothing about a process in the middle of its work, so
`PubInv` adds for each process: its command can be at its step; it holds the lock
whose section it is in; what it is building is no older than the file on disk,
covers its own write and, if it is of the latest version, shows the tables; its
sequence number is above the file's when it writes the cache; and past the
rebuild, the file covers what it wrote. A step of another process keeps this
because the files change only under the lock.

Six invariants are added to `PubInv`, most of them views of what a process holds.
`IssueInv`: a certificate is signed for the subject of its command and stays unrecorded, and so cannot be superseded, until the table
write. `PairInv`: only the process at `writeCrt` may have parted a pair, and it
holds the previous key. `CRLInv`: the list being written contains the one on disk
(`CounterInv`, while the database is not lost), and its number is above that one's
by the counter, or by the clock if the clock is not set back (`ClockInv`).
`DeliverInv`: what a process has recorded is in the snapshot it builds after that,
and past the rebuild in the file. `LockInv`: the holder of the cache's or the CRL's
lock is inside the section and the holder of an issued file's lock is past the
request for it; so if somebody waits, the holder of the cache's or the CRL's lock
can move, and if both are free, the holder of the file's lock can. `SettleInv`, as
long as nothing has failed: the cache shows the latest write or its writer is still
at work, because a writer that returns leaves a cache that covers its write; and
somebody is about to write a current list of revocations, or the CRL is current
and nobody holds another list.

**Replication.** `TypeInv` adds to the types that no CRL number is ahead of the
clock and that CRLs of one number are one CRL (`Numbered`); `FilesMoveForward`
follows for any number of promotions, because every step leaves the files alone,
changes the tables only, publishes, or pulls (`FileStep`). `RoleInv` ties the step of a host to its mode
and, before a promotion, every client to the founder. `SyncInv`: the founder's
cache has what it acknowledged; a follower's cache is no further, is the same
file under the same number, and has what was acknowledged when its pull began.
`KeptInv` carries this over one promotion. `KnownInv`: the identity a client has
or is writing is recorded by the founder for it, and a client that counts as
registered has a pair that loads; a new serial is that of no certificate, so no
later record takes the place of that one.

**Activation.** `IInv`: who is inside a bootstrap or a promotion holds its lock
(`Holds`); a command's copy of the recovery key is the configured one or none, and
what it is about to save fits what is on disk (`Knows`); the two halves of the CA
belong together and there is no cache without a recovery key (`Files`). `RInv`
adds where the records are during a promotion, and that the configuration says
master if some command has found it so, since nothing turns it back; a master
that was forced to start finds `client` there and is not spoken of. `TInv`
adds to the types that a command which publishes has opened the store.

**Migration.** Two facts besides the types: packets are dated in the order of
their masters (`Dated`), and `last_migration` is no earlier than any packet of a
master before the configured one (`Guarded`). So a packet that passes the
comparison in `applyMigration` is of the configured master or a later one. The
types need that the counters keep their bounds (`Bounded`).

**ClientIssue, Pinning.** `Inv` of `ClientIssueProofs` adds what a process holds
between its answer and its two files (`Holds`), that no run or record has a number
above the count of runs (`Numbered`), and that a process with its key still to
write is the only one at its name and has its certificate there, unless the name
is torn (`Alone`). `PinInv` adds that a pin is one the operator
has named.

**Naming.** The state is the text, of which only the alphabet matters
(`TypeCorrect`); the properties follow from lemmas about the functions. What
holds at the end of a recursion over a text is proved by induction over positions,
in the form that a set which contains 0 and, with `n - 1`, `n`, contains every
position (`Induction`, from the least position outside it); `RecursiveFunction`
gives the function that a recursive definition stands for. On these rest the
number a serial denotes (`SameValue`, `LowerValue`: it is the same without leading
zeros and in lower case). `AcceptedFacts` is the equivalence of labels and characters behind
`IssuesDottedNames`: labels are what lies between neighbouring cuts, the dots and
the two ends, and every character that is no dot lies between two of them. For
addresses, `SplitHostPort` takes apart what `JoinHostPort` has put together, and
the spellings of a host have one `host`. For files, an accepted target has no
underscore and a star only before the first dot, so `sanitizeName` can be undone.

The invariants of `Master` and `Replication` were checked with TLC on the
constants of their runs before they were proved. A proof has one lemma for each
action or group of actions that changes the same state, and one that combines
them.

**Only model-checked.**

- All liveness, which is out of the prover's reach: `EveryProcessEnds`,
  `RevocationIsPublished`, `RevocationReachesFollowers`, `FollowersConverge`,
  `ActivationEnds`, `SeedGetsShown`, `QueuedIsApplied`.
- The two violated properties, which are false.

## Not modelled

- `recovery.go`, the encryption in `cache.go`, `encryptKey` and `--decrypt-key`:
  cryptography, with no states to explore. The models assume that a seed opens
  exactly what was sealed for its key and that a signature verifies only under
  the key that made it.
- `install.go` and the ICMP and ARP probes of `netcheck.go`: external programs
  and raw input and output.
- `--list-certs`, `--list-revoked`, `--list-clients`, `--list-blocked`, `/health`:
  they print and change no state.
- `ClientAllowed`, the token check and the limits on request bodies: they refuse
  before any state is touched. Flags, defaults and the parsing of `config.yaml`.
- Expiry of identities and CRLs, and the renewal it causes, except as a choice.
- Two masters serving at once, and clocks that differ between masters.
