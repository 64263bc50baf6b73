---------------------------- MODULE Fleet_proof ----------------------------
(***************************************************************************)
(* Theorems about the fleet, for every number of shards, workers, hosts,   *)
(* campaigns and faults.                                                   *)
(*                                                                         *)
(* DoneIsDurable is not inductive by itself: it needs to know what the     *)
(* server is about to do with the shard it is writing (ServerInv), that a  *)
(* /done names a shard (PostsNameShards), and hence that a thread which    *)
(* posts holds one, which it learned from the answer to its own /lease and *)
(* not from the answer to some older request (Heard, Live).                *)
(***************************************************************************)
EXTENDS Fleet, FiniteSetTheorems, TLAPS

\* The requests the server may still act on.
Pending == net \cup ({handling} \ {NoRequest})

\* done is exactly what the directory holds, but for the file just renamed.
ServerInv ==
    /\ pc \in {"down", "idle"} => handling = NoRequest
    /\ pc \in {"writing", "renamed"} => /\ handling # NoRequest
                                               /\ handling.kind = "post"
    /\ pc = "down" => done = {}
    /\ pc \in {"idle", "writing"} => done = OnDisk(campaign)
    /\ pc = "writing" => handling.shard \notin done
    /\ pc = "renamed" => OnDisk(campaign) = done \cup {handling.shard}

\* Only whole files are ever visible.
NothingTorn == \A c \in Campaigns : \A s \in Shards : disk[c][s] # Torn

PostsNameShards == \A r \in Pending : r.kind \in {"post", "release"} => r.shard \in Shards

HoldersHoldShards == \A w \in Workers : phase[w] \in {"run", "post", "release"} => job[w] \in Shards

\* A request somebody listens to is the one its sender is waiting on.
Live ==
    /\ \A r \in Pending : r.orphan = 0 =>
         /\ r.kind = phase[r.from]
         /\ r.shard = job[r.from]
         /\ r.campaign = serves[HostOf[r.from]]
         /\ conn[r.from]
         /\ inbox[r.from] = NoReply
    /\ handling # NoRequest /\ handling.orphan = 0 => handling \notin net

\* A granted lease names a shard.
Heard == \A w \in Workers : inbox[w] # NoReply =>
            /\ conn[w]
            /\ phase[w] = "lease" /\ inbox[w].code = 200 => inbox[w].shard \in Shards

\* Only a thread inside a request has a connection.
Waiting == \A w \in Workers : conn[w] => phase[w] \in {"lease", "post", "release"}

IInv == /\ TypeOK /\ ServerInv /\ NothingTorn /\ PostsNameShards
        /\ HoldersHoldShards /\ Waiting /\ Heard /\ Live

\* With one campaign, a 200 to a /done says that the result is in its file.
AckedInv ==
    /\ AckedIsDurable
    /\ \A w \in Workers : inbox[w] # NoReply /\ phase[w] = "post" /\ inbox[w].code = 200
         => disk[serves[HostOf[w]]][job[w]] \in Results

-----------------------------------------------------------------------------
USE TotalAssumption, LeaseTTLAssumption, FreeAssumption, FleetAssumption, SentinelAssumption

\* What an action does to a queue, a reply or a set of connections keeps the types.
LEMMA ReplyType ==
    ASSUME NEW r, NEW a \in Replies,
           inbox \in [Workers -> Replies \cup {NoReply}], Reply(r, a)
    PROVE  inbox' \in [Workers -> Replies \cup {NoReply}]
  BY DEF Reply

LEMMA CutType ==
    ASSUME TypeOK, NEW lost \in SUBSET Workers, Cut(lost)
    PROVE  /\ conn' \in [Workers -> BOOLEAN]
           /\ inbox' \in [Workers -> Replies \cup {NoReply}]
           /\ phase' \in [Workers -> {"off", "idle", "lease", "run", "post", "release"}]
           /\ job' \in [Workers -> Shards \cup {NoShard}]
  BY DEF TypeOK, Cut

LEMMA OrphanType ==
    ASSUME TypeOK, NEW W \in SUBSET Workers, Orphan(W)
    PROVE  /\ net' \in SUBSET Requests
           /\ handling' \in Requests \cup {NoRequest}
  BY DEF TypeOK, Orphan, Left, Requests

LEMMA InitTypeOK == Init => TypeOK
<1> SUFFICES ASSUME Init PROVE TypeOK
  OBVIOUS
<1> USE DEF Init
<1>1. LeaseTypeOK
  BY DEF LeaseTypeOK
<1>2. /\ disk \in [Campaigns -> [Shards -> Results \cup {NoFile, Torn}]]
      /\ pc \in {"down", "idle", "writing", "renamed"}
      /\ campaign \in Campaigns
      /\ handling \in Requests \cup {NoRequest}
      /\ net \in SUBSET Requests
  OBVIOUS
<1>3. /\ phase \in [Workers -> {"off", "idle", "lease", "run", "post", "release"}]
      /\ job \in [Workers -> Shards \cup {NoShard}]
      /\ conn \in [Workers -> BOOLEAN]
      /\ inbox \in [Workers -> Replies \cup {NoReply}]
  OBVIOUS
<1>4. /\ serves \in [Hosts -> Campaigns]
      /\ signals \in [Hosts -> 0 .. 2]
      /\ faults \in 0 .. MaxFaults
      /\ acked \in SUBSET (Campaigns \X Shards)
      /\ lessee \in [Shards -> Workers \cup {Nobody}]
  OBVIOUS
<1> QED BY <1>1, <1>2, <1>3, <1>4 DEF TypeOK

LEMMA DieType ==
    ASSUME TypeOK, NEW h \in Hosts, Die(h)
    PROVE  /\ net' \in SUBSET Requests
           /\ handling' \in Requests \cup {NoRequest}
           /\ UNCHANGED <<pc, campaign>>
           /\ phase' \in [Workers -> {"off", "idle", "lease", "run", "post", "release"}]
           /\ job' \in [Workers -> Shards \cup {NoShard}]
           /\ conn' \in [Workers -> BOOLEAN]
           /\ inbox' \in [Workers -> Replies \cup {NoReply}]
  <1>1. ThreadsOf(h) \in SUBSET Workers
    BY DEF ThreadsOf
  <1>2. /\ net' \in SUBSET Requests
        /\ handling' \in Requests \cup {NoRequest}
        /\ UNCHANGED <<pc, campaign>>
    BY <1>1, OrphanType DEF Die, Orphan
  <1> QED BY <1>2 DEF Die, TypeOK

LEMMA RenameType ==
    ASSUME IInv, Rename
    PROVE  disk' \in [Campaigns -> [Shards -> Results \cup {NoFile, Torn}]]
  <1>1. /\ handling \in Requests
        /\ handling.shard \in Shards
    BY DEF IInv, TypeOK, ServerInv, PostsNameShards, Pending, Rename
  <1> DEFINE file == [shard |-> handling.shard, campaign |-> handling.campaign, by |-> handling.from]
  <1>2. file \in Results
    BY <1>1 DEF Requests, Results
  <1> QED BY <1>2 DEF IInv, TypeOK, Rename

LEMMA LeaseType ==
    ASSUME LeaseTypeOK, NEW s \in Shards, Lease(s)
    PROVE  LeaseTypeOK'
  BY DEF LeaseTypeOK, Lease

LEMMA NextTypeOK == IInv /\ [Next]_vars => TypeOK'
<1> SUFFICES ASSUME IInv, [Next]_vars PROVE TypeOK'
  OBVIOUS
<1>a. TypeOK
  BY DEF IInv
<1> USE DEF server, serverVars, workerVars, historyVars
<1>1. ASSUME NEW r \in net, HandleLease(r) PROVE TypeOK'
  <2>1. /\ UNCHANGED <<disk, server, phase, job, conn, serves, signals, faults, acked>>
        /\ net' \in SUBSET Requests
        /\ r \in Requests
    BY <1>a, <1>1 DEF HandleLease, Take, TypeOK
  <2>2. CASE \/ Reply(r, Answer(409, NoShard)) /\ UNCHANGED <<done, leases, lessee>>
             \/ Reply(r, Answer(204, NoShard)) /\ UNCHANGED <<done, leases, lessee>>
    BY <1>a, <2>1, <2>2, ReplyType DEF TypeOK, LeaseTypeOK, Answer, Replies
  <2>3. ASSUME NEW s \in Shards, Lease(s), Reply(r, Answer(200, s)),
               lessee' = [lessee EXCEPT ![s] = r.from]
        PROVE  TypeOK'
    <3>1. LeaseTypeOK'
      BY <1>a, <2>3, LeaseType DEF TypeOK
    <3>2. Answer(200, s) \in Replies
      BY DEF Answer, Replies
    <3>3. inbox' \in [Workers -> Replies \cup {NoReply}]
      BY <1>a, <2>1, <2>3, <3>2, ReplyType DEF TypeOK
    <3>4. lessee' \in [Shards -> Workers \cup {Nobody}]
      BY <1>a, <2>1, <2>3 DEF TypeOK, Requests
    <3> QED BY <1>a, <2>1, <3>1, <3>3, <3>4 DEF TypeOK
  <2> QED BY <1>a, <1>1, <2>2, <2>3 DEF HandleLease, Leasable
<1>2. ASSUME NEW r \in net, DiscardDuplicate(r) PROVE TypeOK'
  BY <1>a, <1>2, ReplyType DEF DiscardDuplicate, Take, Replies, Answer, TypeOK, LeaseTypeOK
<1>3. ASSUME NEW r \in net, BeginWrite(r) PROVE TypeOK'
  BY <1>a, <1>3 DEF BeginWrite, Take, TypeOK, LeaseTypeOK
<1>4. ASSUME NEW r \in net, HandleRelease(r) PROVE TypeOK'
  <2>1. Answer(200, NoShard) \in Replies
    BY DEF Answer, Replies
  <2>2. inbox' \in [Workers -> Replies \cup {NoReply}]
    BY <1>a, <1>4, <2>1, ReplyType DEF HandleRelease, TypeOK
  <2>3. LeaseTypeOK'
    BY <1>a, <1>4 DEF HandleRelease, Release, TypeOK, LeaseTypeOK
  <2> QED BY <1>a, <1>4, <2>2, <2>3 DEF HandleRelease, Take, TypeOK
<1>5. CASE WriteFails
  BY <1>a, <1>5, ReplyType DEF WriteFails, Replies, Answer, TypeOK, LeaseTypeOK
<1>6. CASE Rename
  BY <1>a, <1>6, RenameType DEF Rename, TypeOK, LeaseTypeOK
<1>7. CASE Commit
  <2>1. handling.shard \in Shards
    BY <1>7 DEF IInv, ServerInv, PostsNameShards, Pending, Commit
  <2> QED BY <1>a, <1>7, <2>1, ReplyType DEF Commit, Complete, Replies, Answer, TypeOK, LeaseTypeOK
<1>8. CASE ServerCrash
  BY <1>a, <1>8, CutType DEF ServerCrash, Rebuild, TypeOK, LeaseTypeOK
<1>9. ASSUME NEW c \in Campaigns, ServerStart(c) PROVE TypeOK'
  BY <1>a, <1>9 DEF ServerStart, Rebuild, OnDisk, TypeOK, LeaseTypeOK
<1>10. CASE Tick
  BY <1>a, <1>10 DEF Tick, Age, Active, TypeOK, LeaseTypeOK
<1>11. ASSUME NEW h \in Hosts, Launch(h) PROVE TypeOK'
  BY <1>a, <1>11 DEF Launch, TypeOK, LeaseTypeOK
<1>12. ASSUME NEW w \in Workers,
              \/ AskForWork(w) \/ Retire(w) \/ Finish(w)
              \/ Abort(w) \/ HearRelease(w) \/ GiveUpRelease(w)
       PROVE  TypeOK'
  BY <1>a, <1>12 DEF AskForWork, Retire, Finish, Abort, HearRelease, GiveUpRelease, Hear,
                     SetPhase, TypeOK, LeaseTypeOK
<1>13. ASSUME NEW w \in Workers, Send(w) PROVE TypeOK'
  BY <1>a, <1>13 DEF Send, Requests, TypeOK, LeaseTypeOK
<1>14. ASSUME NEW w \in Workers, HearLease(w) PROVE TypeOK'
  <2>1. inbox[w] \in Replies
    BY <1>a, <1>14 DEF HearLease, Hear, TypeOK
  <2>2. inbox[w].shard \in Shards \cup {NoShard}
    BY <2>1 DEF Replies
  <2>3. job' \in [Workers -> Shards \cup {NoShard}]
    <3>1. job \in [Workers -> Shards \cup {NoShard}]
      BY <1>a DEF TypeOK
    <3>2. job' = [job EXCEPT ![w] = inbox[w].shard] \/ UNCHANGED job
      BY <1>14 DEF HearLease
    <3> QED BY <2>2, <3>1, <3>2
  <2>4. phase' \in [Workers -> {"off", "idle", "lease", "run", "post", "release"}]
    BY <1>a, <1>14 DEF HearLease, SetPhase, TypeOK
  <2>5. /\ inbox' \in [Workers -> Replies \cup {NoReply}]
        /\ conn' \in [Workers -> BOOLEAN]
    BY <1>a, <1>14 DEF HearLease, Hear, TypeOK
  <2> QED BY <1>a, <1>14, <2>3, <2>4, <2>5 DEF HearLease, TypeOK, LeaseTypeOK
<1>15. ASSUME NEW w \in Workers, HearDone(w) PROVE TypeOK'
  <2>1. job[w] \in Shards
    BY <1>15 DEF IInv, HoldersHoldShards, HearDone, Hear
  <2> QED BY <1>a, <1>15, <2>1 DEF HearDone, Hear, SetPhase, TypeOK, LeaseTypeOK
<1>16. ASSUME NEW w \in Workers, ConnectionBreaks(w) PROVE TypeOK'
  <2>1. {w} \in SUBSET Workers
    OBVIOUS
  <2>2. /\ net' \in SUBSET Requests
        /\ handling' \in Requests \cup {NoRequest}
    BY <1>a, <1>16, <2>1, OrphanType DEF ConnectionBreaks
  <2>3. /\ conn' \in [Workers -> BOOLEAN]
        /\ inbox' \in [Workers -> Replies \cup {NoReply}]
        /\ phase' \in [Workers -> {"off", "idle", "lease", "run", "post", "release"}]
        /\ job' \in [Workers -> Shards \cup {NoShard}]
    BY <1>a, <1>16, <2>1, CutType DEF ConnectionBreaks
  <2> QED BY <1>a, <1>16, <2>2, <2>3 DEF ConnectionBreaks, Orphan, TypeOK, LeaseTypeOK
<1>17. ASSUME NEW w \in Workers, HearRefused(w) PROVE TypeOK'
  BY <1>a, <1>17, DieType DEF HearRefused, TypeOK, LeaseTypeOK
<1>18. ASSUME NEW h \in Hosts, HostCrash(h) PROVE TypeOK'
  BY <1>a, <1>18, DieType DEF HostCrash, TypeOK, LeaseTypeOK
<1>19. ASSUME NEW h \in Hosts, Signal(h) PROVE TypeOK'
  <2>1. h \in Hosts /\ signals \in [Hosts -> 0 .. 2] /\ faults \in 0 .. MaxFaults
    BY <1>a, <1>19 DEF TypeOK
  <2>2. /\ signals' = [signals EXCEPT ![h] = 1] \/ signals' = [signals EXCEPT ![h] = 2]
           \/ signals' = signals
        /\ faults' = faults \/ (faults < MaxFaults /\ faults' = faults + 1)
        /\ Die(h) \/ UNCHANGED <<net, server, phase, job, conn, inbox>>
        /\ UNCHANGED <<done, leases, disk, serves, acked, lessee>>
    BY <1>19, Zenon DEF Signal
  <2>3. signals' \in [Hosts -> 0 .. 2]
    BY <2>1, <2>2
  <2>4. faults' \in 0 .. MaxFaults
    BY <2>1, <2>2, FleetAssumption
  <2>5. CASE Die(h)
    BY <1>a, <2>2, <2>3, <2>4, <2>5, DieType DEF TypeOK, LeaseTypeOK
  <2>6. CASE UNCHANGED <<net, server, phase, job, conn, inbox>>
    BY <1>a, <2>2, <2>3, <2>4, <2>6 DEF TypeOK, LeaseTypeOK, server
  <2> QED BY <2>2, <2>5, <2>6
<1>20. CASE UNCHANGED vars
  BY <1>a, <1>20 DEF vars, TypeOK, LeaseTypeOK
<1> QED
  BY <1>1, <1>2, <1>3, <1>4, <1>5, <1>6, <1>7, <1>8, <1>9, <1>10, <1>11, <1>12, <1>13, <1>14,
     <1>15, <1>16, <1>17, <1>18, <1>19, <1>20
  DEF Next, FinishDone, Restart, Disturb, Handle, Work

\* Every step of the specification is one of these.
LEMMA Steps ==
    ASSUME [Next]_vars
    PROVE  \/ \E r \in net : HandleLease(r) \/ DiscardDuplicate(r) \/ BeginWrite(r) \/ HandleRelease(r)
           \/ WriteFails \/ Rename \/ Commit \/ ServerCrash \/ Tick
           \/ \E c \in Campaigns : ServerStart(c)
           \/ \E w \in Workers : \/ AskForWork(w) \/ Retire(w) \/ Send(w) \/ HearLease(w)
                                \/ Finish(w) \/ Abort(w) \/ HearDone(w) \/ HearRelease(w)
                                \/ GiveUpRelease(w) \/ ConnectionBreaks(w) \/ HearRefused(w)
           \/ \E h \in Hosts : Launch(h) \/ HostCrash(h) \/ Signal(h)
           \/ UNCHANGED vars
  BY DEF Next, FinishDone, Restart, Disturb, Handle, Work

\* Losing its connection changes a request in nothing the server looks at.
LEMMA OrphanKeeps ==
    ASSUME TypeOK, NEW W \in SUBSET Workers, Orphan(W)
    PROVE  /\ handling' = NoRequest <=> handling = NoRequest
           /\ handling # NoRequest => /\ handling'.kind = handling.kind
                                      /\ handling'.shard = handling.shard
           /\ \A r \in net' : \E q \in net : r.kind = q.kind /\ r.shard = q.shard
  <1>1. handling # NoRequest => Left(handling) \in Requests
    BY DEF TypeOK, Requests, Left
  <1>2. \A r : Left(r).kind = r.kind /\ Left(r).shard = r.shard
    BY DEF Left
  <1> QED BY <1>1, <1>2 DEF Orphan

\* The file system changes at the rename and nowhere else.
LEMMA OnlyRenameWrites == ASSUME [Next]_vars PROVE Rename \/ UNCHANGED disk
  BY Steps DEF HandleLease, DiscardDuplicate, BeginWrite, HandleRelease, WriteFails, Commit,
     ServerCrash, Tick, ServerStart, AskForWork, Retire, Send, HearLease, Finish, Abort, HearDone,
     HearRelease, GiveUpRelease, ConnectionBreaks, HearRefused, Launch, HostCrash, Signal, vars,
     serverVars

LEMMA NextNothingTorn == IInv /\ [Next]_vars => NothingTorn'
<1> SUFFICES ASSUME IInv, [Next]_vars PROVE NothingTorn'
  OBVIOUS
<1>1. CASE Rename
  <2> DEFINE file == [shard |-> handling.shard, campaign |-> handling.campaign, by |-> handling.from]
  <2>1. file \in Results
    BY <1>1 DEF IInv, TypeOK, ServerInv, PostsNameShards, Pending, Rename, Requests, Results
  <2> QED BY <1>1, <2>1 DEF IInv, TypeOK, Rename, NothingTorn
<1>2. CASE UNCHANGED disk
  BY <1>2 DEF IInv, NothingTorn
<1> QED BY <1>1, <1>2, OnlyRenameWrites

\* The steps in which the threads W lose their connection.
Breaks == \/ \E w \in Workers : ConnectionBreaks(w) \/ HearRefused(w)
          \/ \E h \in Hosts : HostCrash(h) \/ (Signal(h) /\ Die(h))

Lose(W) ==
    /\ Orphan(W)
    /\ UNCHANGED <<done, leases, disk, serves, pc, campaign>>
    /\ \A w \in W : /\ ~conn'[w] /\ inbox'[w] = NoReply
                   /\ \/ phase'[w] = phase[w] /\ job'[w] = job[w]
                      \/ phase'[w] = "off"
    /\ \A w \in Workers \ W : /\ conn'[w] = conn[w] /\ inbox'[w] = inbox[w]
                             /\ phase'[w] = phase[w] /\ job'[w] = job[w]

LEMMA DieLoses ==
    ASSUME TypeOK, NEW h \in Hosts, Die(h), UNCHANGED <<done, leases, disk, serves>>
    PROVE  \E W \in SUBSET Workers : Lose(W)
  <1>1. Orphan(ThreadsOf(h)) /\ UNCHANGED <<pc, campaign>>
    BY DEF Die, Orphan
  <1>2. ThreadsOf(h) \in SUBSET Workers
    BY DEF ThreadsOf
  <1>3. Lose(ThreadsOf(h))
    BY <1>1 DEF Lose, Die, ThreadsOf, TypeOK
  <1> QED BY <1>2, <1>3

LEMMA BreaksLose ==
    ASSUME TypeOK, Breaks
    PROVE  \E W \in SUBSET Workers : Lose(W)
  <1>1. ASSUME NEW w \in Workers, ConnectionBreaks(w) PROVE \E W \in SUBSET Workers : Lose(W)
    <2>1. UNCHANGED <<done, leases, disk, serves, pc, campaign>> /\ Orphan({w}) /\ Cut({w})
      BY <1>1 DEF ConnectionBreaks, Orphan
    <2>2. Lose({w})
      BY <2>1 DEF Lose, Cut, TypeOK
    <2> QED BY <2>2
  <1>2. CASE \E w \in Workers : HearRefused(w)
    BY <1>2, DieLoses DEF HearRefused
  <1>3. CASE \E h \in Hosts : HostCrash(h) \/ (Signal(h) /\ Die(h))
    BY <1>3, DieLoses DEF HostCrash, Signal
  <1> QED BY <1>1, <1>2, <1>3 DEF Breaks

\* The steps of the threads and of time that touch nothing of the server's.
Aside == \/ \E w \in Workers : \/ AskForWork(w) \/ Retire(w) \/ HearLease(w) \/ Finish(w) \/ Abort(w)
                              \/ HearDone(w) \/ HearRelease(w) \/ GiveUpRelease(w)
         \/ \E h \in Hosts : Launch(h) \/ (Signal(h) /\ ~Die(h))
         \/ Tick

LEMMA AsideKeepsServer == ASSUME Aside PROVE UNCHANGED <<done, disk, pc, campaign, handling, net>>
  BY DEF Aside, AskForWork, Retire, HearLease, Finish, Abort, HearDone, HearRelease, GiveUpRelease,
     Launch, Signal, Tick, Age, serverVars, server

LEMMA StepKinds ==
    ASSUME [Next]_vars
    PROVE  \/ \E r \in net : HandleLease(r) \/ DiscardDuplicate(r) \/ BeginWrite(r) \/ HandleRelease(r)
           \/ WriteFails \/ Rename \/ Commit \/ ServerCrash
           \/ \E c \in Campaigns : ServerStart(c)
           \/ \E w \in Workers : Send(w)
           \/ Aside \/ Breaks \/ UNCHANGED vars
  BY Steps DEF Aside, Breaks

LEMMA NextServerInv == IInv /\ [Next]_vars => ServerInv'
<1> SUFFICES ASSUME IInv, [Next]_vars PROVE ServerInv'
  OBVIOUS
<1>a. TypeOK /\ ServerInv
  BY DEF IInv
<1> USE DEF ServerInv, OnDisk
<1>1. CASE \E r \in net : HandleLease(r) \/ DiscardDuplicate(r) \/ HandleRelease(r)
  BY <1>a, <1>1 DEF HandleLease, DiscardDuplicate, HandleRelease, Lease, Release, server
<1>2. ASSUME NEW r \in net, BeginWrite(r) PROVE ServerInv'
  <2>1. r # NoRequest
    BY <1>a DEF TypeOK
  <2> QED BY <1>a, <1>2, <2>1 DEF BeginWrite, Take
<1>3. CASE WriteFails
  BY <1>a, <1>3 DEF WriteFails
<1>4. CASE Rename
  <2>1. /\ handling.shard \in Shards
        /\ campaign \in Campaigns
    BY <1>4 DEF IInv, TypeOK, PostsNameShards, Pending, Rename
  <2>2. disk' = [disk EXCEPT ![campaign][handling.shard] = disk'[campaign][handling.shard]]
    BY <1>a, <1>4, <2>1 DEF Rename, TypeOK
  <2>3. disk'[campaign][handling.shard] \in Results
    BY <1>a, <1>4, <2>1 DEF Rename, TypeOK, Results, Requests
  <2>4. OnDisk(campaign)' = OnDisk(campaign) \cup {handling.shard}
    BY <1>a, <1>4, <2>1, <2>2, <2>3 DEF Rename, TypeOK
  <2> QED BY <1>a, <1>4, <2>4 DEF Rename
<1>5. CASE Commit
  BY <1>a, <1>5 DEF Commit, Complete
<1>6. CASE ServerCrash
  BY <1>a, <1>6 DEF ServerCrash, Rebuild
<1>7. CASE \E c \in Campaigns : ServerStart(c)
  BY <1>a, <1>7 DEF ServerStart, Rebuild
<1>8. CASE \E w \in Workers : Send(w)
  BY <1>a, <1>8 DEF Send, server
<1>9. CASE Aside
  BY <1>a, <1>9, AsideKeepsServer
<1>10. CASE Breaks
  <2>1. PICK W \in SUBSET Workers : Lose(W)
    BY <1>a, <1>10, BreaksLose
  <2>2. /\ UNCHANGED <<done, disk, pc, campaign>>
        /\ handling' = NoRequest <=> handling = NoRequest
        /\ handling # NoRequest => handling'.kind = handling.kind /\ handling'.shard = handling.shard
    BY <1>a, <2>1, OrphanKeeps DEF Lose
  <2> QED BY <1>a, <2>2
<1>11. CASE UNCHANGED vars
  BY <1>a, <1>11 DEF vars, serverVars, server
<1> QED BY <1>1, <1>2, <1>3, <1>4, <1>5, <1>6, <1>7, <1>8, <1>9, <1>10, <1>11, StepKinds

LEMMA NextPostsNameShards == IInv /\ [Next]_vars => PostsNameShards'
<1> SUFFICES ASSUME IInv, [Next]_vars PROVE PostsNameShards'
  OBVIOUS
<1>a. TypeOK /\ PostsNameShards /\ HoldersHoldShards
  BY DEF IInv
<1> USE DEF PostsNameShards, Pending
<1>1. CASE \E r \in net : HandleLease(r) \/ DiscardDuplicate(r) \/ BeginWrite(r) \/ HandleRelease(r)
  BY <1>a, <1>1 DEF HandleLease, DiscardDuplicate, BeginWrite, HandleRelease, Take, server
<1>2. CASE WriteFails \/ Rename \/ Commit \/ ServerCrash \/ \E c \in Campaigns : ServerStart(c)
  BY <1>a, <1>2 DEF WriteFails, Rename, Commit, ServerCrash, ServerStart
<1>3. ASSUME NEW w \in Workers, Send(w) PROVE PostsNameShards'
  BY <1>a, <1>3 DEF Send, HoldersHoldShards, server
<1>4. CASE Aside
  BY <1>a, <1>4, AsideKeepsServer
<1>5. CASE Breaks
  <2>1. PICK W \in SUBSET Workers : Lose(W)
    BY <1>a, <1>5, BreaksLose
  <2> QED BY <1>a, <2>1, OrphanKeeps DEF Lose
<1>6. CASE UNCHANGED vars
  BY <1>a, <1>6 DEF vars, serverVars, server
<1> QED BY <1>1, <1>2, <1>3, <1>4, <1>5, <1>6, StepKinds

\* What a thread holds and waits for changes by its own steps, and when its
\* connection is lost.
LEMMA ServerKeepsThreads ==
    ASSUME \/ \E r \in net : HandleLease(r) \/ DiscardDuplicate(r) \/ BeginWrite(r) \/ HandleRelease(r)
           \/ WriteFails \/ Rename \/ Commit \/ \E c \in Campaigns : ServerStart(c)
    PROVE  UNCHANGED <<phase, job, conn, serves>>
  BY DEF HandleLease, DiscardDuplicate, BeginWrite, HandleRelease, WriteFails, Rename, Commit,
         ServerStart, workerVars

LEMMA NextHolders == IInv /\ [Next]_vars => (HoldersHoldShards /\ Waiting)'
<1> SUFFICES ASSUME IInv, [Next]_vars PROVE (HoldersHoldShards /\ Waiting)'
  OBVIOUS
<1>a. TypeOK /\ HoldersHoldShards /\ Waiting /\ Heard
  BY DEF IInv
<1> USE DEF HoldersHoldShards, Waiting
<1>1. CASE \/ \E r \in net : HandleLease(r) \/ DiscardDuplicate(r) \/ BeginWrite(r) \/ HandleRelease(r)
           \/ WriteFails \/ Rename \/ Commit \/ \E c \in Campaigns : ServerStart(c)
  BY <1>a, <1>1, ServerKeepsThreads
<1>2. CASE ServerCrash
  <2>1. PICK lost \in SUBSET Workers : Cut(lost)
    BY <1>2 DEF ServerCrash
  <2>2. ASSUME NEW w \in Workers
        PROVE  \/ phase'[w] = "off" /\ job'[w] = NoShard /\ ~conn'[w]
               \/ phase'[w] = phase[w] /\ job'[w] = job[w] /\ (conn'[w] => conn[w])
    BY <1>a, <2>1, <2>2 DEF Cut
  <2> QED BY <1>a, <2>2
<1>3. CASE \E w \in Workers : Send(w)
  <2>1. PICK w \in Workers : Send(w)
    BY <1>3
  <2>2. UNCHANGED <<phase, job>> /\ phase[w] \in {"lease", "post", "release"}
    BY <2>1 DEF Send
  <2>3. \A v \in Workers \ {w} : conn'[v] = conn[v]
    BY <1>a, <2>1 DEF Send, TypeOK
  <2> QED BY <1>a, <2>2, <2>3
<1>4. CASE Aside
  <2>1. CASE \E w \in Workers : AskForWork(w) \/ Retire(w) \/ Finish(w) \/ Abort(w)
    <3>1. PICK w \in Workers : AskForWork(w) \/ Retire(w) \/ Finish(w) \/ Abort(w)
      BY <2>1
    <3>2. \/ phase[w] = "idle" /\ phase'[w] \in {"lease", "off"}
          \/ phase[w] = "run" /\ phase'[w] \in {"post", "release"}
      BY <1>a, <3>1 DEF AskForWork, Retire, Finish, Abort, SetPhase, TypeOK
    <3>3. UNCHANGED <<job, conn>> /\ \A v \in Workers \ {w} : phase'[v] = phase[v]
      BY <1>a, <3>1 DEF AskForWork, Retire, Finish, Abort, SetPhase, TypeOK
    <3> QED BY <1>a, <3>2, <3>3
  <2>2. ASSUME NEW w \in Workers, HearDone(w) \/ HearRelease(w) \/ GiveUpRelease(w)
        PROVE  (HoldersHoldShards /\ Waiting)'
    <3>1. /\ phase'[w] \in {"idle", "off"}
          /\ ~conn'[w]
          /\ \A v \in Workers \ {w} : phase'[v] = phase[v] /\ conn'[v] = conn[v] /\ job'[v] = job[v]
      BY <1>a, <2>2 DEF HearDone, HearRelease, GiveUpRelease, Hear, SetPhase, TypeOK
    <3> QED BY <1>a, <3>1
  <2>3. ASSUME NEW w \in Workers, HearLease(w) PROVE (HoldersHoldShards /\ Waiting)'
    <3>1. CASE inbox[w].code = 200 /\ SetPhase(w, "run") /\ job' = [job EXCEPT ![w] = inbox[w].shard]
      BY <1>a, <2>3, <3>1 DEF HearLease, Hear, SetPhase, TypeOK, Heard
    <3>2. CASE SetPhase(w, "off") /\ UNCHANGED job
      BY <1>a, <2>3, <3>2 DEF HearLease, Hear, SetPhase, TypeOK
    <3> QED BY <2>3, <3>1, <3>2 DEF HearLease
  <2>4. ASSUME NEW h \in Hosts, Launch(h) PROVE (HoldersHoldShards /\ Waiting)'
    <3>1. \A w \in Workers : HostOf[w] = h => phase[w] = "off" /\ phase'[w] = "idle"
      BY <1>a, <2>4 DEF Launch, Stopped, ThreadsOf, TypeOK
    <3>2. \A w \in Workers : HostOf[w] # h => phase'[w] = phase[w]
      BY <1>a, <2>4 DEF Launch, TypeOK
    <3>3. UNCHANGED <<job, conn>>
      BY <2>4 DEF Launch
    <3> QED BY <1>a, <3>1, <3>2, <3>3
  <2>5. CASE Tick \/ \E h \in Hosts : Signal(h) /\ ~Die(h)
    BY <1>a, <2>5 DEF Tick, Signal, workerVars
  <2> QED BY <1>4, <2>1, <2>2, <2>3, <2>4, <2>5 DEF Aside
<1>5. CASE Breaks
  <2>1. PICK W \in SUBSET Workers : Lose(W)
    BY <1>a, <1>5, BreaksLose
  <2> QED BY <1>a, <2>1 DEF Lose
<1>6. CASE UNCHANGED vars
  BY <1>a, <1>6 DEF vars, workerVars
<1> QED BY <1>1, <1>2, <1>3, <1>4, <1>5, <1>6, StepKinds

\* Two requests somebody listens to have different senders.
LEMMA OneRequestEach ==
    ASSUME TypeOK, Live, NEW r \in Pending, NEW q \in Pending,
           r.orphan = 0, q.orphan = 0, r.from = q.from
    PROVE  r = q
  <1>1. r \in Requests /\ q \in Requests
    BY DEF TypeOK, Pending
  <1>2. r.kind = q.kind /\ r.shard = q.shard /\ r.campaign = q.campaign
    BY DEF Live
  <1> QED BY <1>1, <1>2 DEF Requests

\* Taking r from the queue and answering it keeps Live and Heard.
LEMMA AnswerKeeps ==
    ASSUME IInv, NEW r \in Pending, NEW a \in Replies, Reply(r, a),
           net' = net \ {r} \/ (r = handling /\ UNCHANGED net),
           handling # NoRequest => r = handling, handling' = NoRequest,
           UNCHANGED <<phase, job, conn, serves>>,
           r.kind = "lease" /\ a.code = 200 => a.shard \in Shards
    PROVE  (Live /\ Heard)'
  <1>a. TypeOK /\ Live /\ Heard
    BY DEF IInv
  <1>1. r \in Requests
    BY <1>a DEF TypeOK, Pending
  <1>2. \A q \in Pending' : q \in Pending /\ (r.orphan = 0 => q # r)
    BY <1>a, <1>1 DEF Pending, Live
  <1>3. \A q \in Pending' : q.orphan = 0 => inbox'[q.from] = inbox[q.from]
    <2> SUFFICES ASSUME NEW q \in Pending', q.orphan = 0 PROVE inbox'[q.from] = inbox[q.from]
      OBVIOUS
    <2>1. q \in Requests
      BY <1>a, <1>2 DEF TypeOK, Pending
    <2>2. CASE r.orphan = 0
      <3>1. q.from # r.from
        BY <1>a, <1>2, <2>2, OneRequestEach
      <3> QED BY <1>a, <1>1, <2>1, <3>1 DEF Reply, TypeOK, Requests
    <2>3. CASE r.orphan # 0
      BY <2>3 DEF Reply
    <2> QED BY <2>2, <2>3
  <1>4. Live'
    BY <1>a, <1>2, <1>3 DEF Live
  <1>5. Heard'
    BY <1>a, <1>1 DEF Heard, Live, Reply, TypeOK, Requests
  <1> QED BY <1>4, <1>5

LEMMA NextLiveHeard == IInv /\ [Next]_vars => (Live /\ Heard)'
<1> SUFFICES ASSUME IInv, [Next]_vars PROVE (Live /\ Heard)'
  OBVIOUS
<1>a. TypeOK /\ ServerInv /\ Waiting /\ Live /\ Heard
  BY DEF IInv
<1>b. \A code \in {200, 204, 409, 500}, s \in Shards \cup {NoShard} :
         Answer(code, s) \in Replies /\ Answer(code, s).code = code /\ Answer(code, s).shard = s
  BY DEF Answer, Replies
<1>1. ASSUME NEW r \in net, HandleLease(r) PROVE (Live /\ Heard)'
  <2>1. /\ r \in Pending /\ net' = net \ {r} /\ handling = NoRequest /\ handling' = NoRequest
        /\ UNCHANGED <<phase, job, conn, serves>>
    BY <1>a, <1>1 DEF HandleLease, Take, Pending, ServerInv, server
  <2>2. PICK a \in Replies : Reply(r, a) /\ (a.code = 200 => a.shard \in Shards)
    <3>1. CASE Reply(r, Answer(409, NoShard))
      BY <1>b, <3>1
    <3>2. CASE Reply(r, Answer(204, NoShard))
      BY <1>b, <3>2
    <3>3. CASE \E s \in Shards : Reply(r, Answer(200, s))
      BY <1>b, <3>3
    <3> QED BY <1>1, <3>1, <3>2, <3>3 DEF HandleLease, Leasable
  <2> QED BY <2>1, <2>2, AnswerKeeps
<1>2. ASSUME NEW r \in net, DiscardDuplicate(r) \/ HandleRelease(r) PROVE (Live /\ Heard)'
  <2>1. /\ r \in Pending /\ net' = net \ {r} /\ handling = NoRequest /\ handling' = NoRequest
        /\ UNCHANGED <<phase, job, conn, serves>>
        /\ r.kind # "lease"
        /\ Reply(r, Answer(200, NoShard))
    BY <1>a, <1>2 DEF DiscardDuplicate, HandleRelease, Take, Pending, ServerInv, server
  <2> QED BY <1>b, <2>1, AnswerKeeps
<1>3. CASE WriteFails \/ Commit
  <2>1. /\ handling \in Pending /\ handling.kind = "post"
        /\ handling' = NoRequest
        /\ UNCHANGED <<net, phase, job, conn, serves>>
        /\ Reply(handling, Answer(200, NoShard)) \/ Reply(handling, Answer(500, NoShard))
    BY <1>a, <1>3 DEF WriteFails, Commit, Pending, ServerInv
  <2> QED BY <1>b, <2>1, AnswerKeeps
<1>4. ASSUME NEW r \in net, BeginWrite(r) PROVE (Live /\ Heard)'
  BY <1>a, <1>4 DEF BeginWrite, Take, Pending, workerVars, Live, Heard, ServerInv
<1>5. CASE Rename \/ \E c \in Campaigns : ServerStart(c)
  BY <1>a, <1>5 DEF Rename, ServerStart, Pending, workerVars, Live, Heard
<1>6. CASE ServerCrash
  BY <1>a, <1>6 DEF ServerCrash, Cut, Pending, Live, Heard, TypeOK
<1>7. ASSUME NEW w \in Workers, Send(w) PROVE (Live /\ Heard)'
  <2> DEFINE new == [kind |-> phase[w], from |-> w, shard |-> job[w],
                     campaign |-> serves[HostOf[w]], orphan |-> 0]
  <2>1. /\ UNCHANGED <<phase, job, inbox, serves, handling>>
        /\ conn' = [conn EXCEPT ![w] = TRUE]
        /\ net' = net \cup {new}
        /\ ~conn[w]
    BY <1>7 DEF Send, server
  <2>2. /\ inbox[w] = NoReply
        /\ conn'[w]
        /\ \A v \in Workers : conn[v] => conn'[v]
    BY <1>a, <2>1 DEF Heard, TypeOK
  <2>3. handling # NoRequest /\ handling.orphan = 0 => handling # new
    BY <1>a, <2>1 DEF Live, Pending
  <2>4. \A r \in Pending : r.orphan = 0 => r.from \in Workers
    BY <1>a DEF TypeOK, Requests, Pending
  <2>5. Live'
    BY <1>a, <2>1, <2>2, <2>3, <2>4 DEF Live, Pending
  <2>6. Heard'
    BY <1>a, <2>1, <2>2 DEF Heard
  <2> QED BY <2>5, <2>6
<1>8. CASE Aside
  <2>1. /\ Pending' = Pending
        /\ handling # NoRequest /\ handling.orphan = 0 => handling' \notin net'
        /\ \A r \in Pending : r \in Requests
    BY <1>a, <1>8, AsideKeepsServer DEF Pending, Live, TypeOK
  <2>2. ASSUME NEW w \in Workers, ~conn'[w], ~conn[w] \/ inbox[w] # NoReply,
               \A v \in Workers \ {w} : /\ phase'[v] = phase[v] /\ job'[v] = job[v]
                                       /\ conn'[v] = conn[v] /\ inbox'[v] = inbox[v],
               inbox'[w] = NoReply, UNCHANGED serves
        PROVE  (Live /\ Heard)'
    <3>1. \A r \in Pending : r.orphan = 0 => r.from # w
      BY <1>a, <2>2 DEF Live
    <3>2. \A r \in Pending : r.from \in Workers
      BY <2>1 DEF Requests
    <3>3. Live'
      BY <1>a, <1>8, <2>1, <2>2, <3>1, <3>2, AsideKeepsServer DEF Live
    <3> QED BY <1>a, <2>2, <3>3 DEF Heard
  <2>3. ASSUME NEW w \in Workers,
               AskForWork(w) \/ Retire(w) \/ Finish(w) \/ Abort(w) \/ GiveUpRelease(w)
        PROVE  (Live /\ Heard)'
    <3>1. ~conn[w] /\ inbox[w] = NoReply
      BY <1>a, <2>3 DEF AskForWork, Retire, Finish, Abort, GiveUpRelease, Waiting, Heard
    <3>2. /\ UNCHANGED <<conn, inbox, serves>>
          /\ \A v \in Workers \ {w} : phase'[v] = phase[v] /\ job'[v] = job[v]
      BY <1>a, <2>3 DEF AskForWork, Retire, Finish, Abort, GiveUpRelease, SetPhase, TypeOK
    <3> QED BY <2>2, <3>1, <3>2
  <2>4. ASSUME NEW w \in Workers, HearLease(w) \/ HearDone(w) \/ HearRelease(w)
        PROVE  (Live /\ Heard)'
    <3>1. /\ inbox[w] # NoReply
          /\ inbox' = [inbox EXCEPT ![w] = NoReply] /\ conn' = [conn EXCEPT ![w] = FALSE]
          /\ UNCHANGED serves
      BY <2>4 DEF HearLease, HearDone, HearRelease, Hear
    <3>2. \A v \in Workers \ {w} : phase'[v] = phase[v]
      BY <1>a, <2>4 DEF HearLease, HearDone, HearRelease, SetPhase, TypeOK
    <3>3. \A v \in Workers \ {w} : job'[v] = job[v]
      BY <1>a, <2>4 DEF HearLease, HearDone, HearRelease, TypeOK
    <3> QED BY <1>a, <2>2, <3>1, <3>2, <3>3 DEF TypeOK
  <2>5. ASSUME NEW h \in Hosts, Launch(h) PROVE (Live /\ Heard)'
    <3>1. \A w \in Workers : HostOf[w] = h => ~conn[w] /\ inbox[w] = NoReply
      BY <1>a, <2>5 DEF Launch, Stopped, ThreadsOf, Waiting, Heard
    <3>2. /\ UNCHANGED <<conn, inbox, job>>
          /\ \A w \in Workers : HostOf[w] # h => /\ phase'[w] = phase[w]
                                                /\ serves'[HostOf[w]] = serves[HostOf[w]]
      BY <1>a, <2>5 DEF Launch, TypeOK
    <3>3. \A r \in Pending : r.orphan = 0 => r.from \in Workers /\ HostOf[r.from] # h
      BY <1>a, <2>1, <3>1 DEF Live, Requests
    <3>4. Live'
      BY <1>a, <1>8, <2>1, <3>2, <3>3, AsideKeepsServer DEF Live
    <3> QED BY <1>a, <3>1, <3>2, <3>4 DEF Heard
  <2>6. CASE Tick \/ \E h \in Hosts : Signal(h) /\ ~Die(h)
    <3>1. UNCHANGED <<phase, job, conn, inbox, serves>>
      BY <2>6 DEF Tick, Signal, workerVars
    <3> QED BY <1>a, <1>8, <2>1, <3>1, AsideKeepsServer DEF Live, Heard
  <2> QED BY <1>8, <2>3, <2>4, <2>5, <2>6 DEF Aside
<1>9. CASE Breaks
  <2>1. PICK W \in SUBSET Workers : Lose(W)
    BY <1>a, <1>9, BreaksLose
  <2>2. ASSUME NEW r \in Pending', r.orphan = 0 PROVE r \in Pending /\ r.from \in Workers \ W
    <3>1. \A q \in Pending : q.from \in Workers /\ Left(q).orphan # 0
      BY <1>a DEF TypeOK, Requests, Pending, Left
    <3> QED BY <1>a, <2>1, <2>2, <3>1 DEF Lose, Orphan, Pending
  <2>3. handling' # NoRequest /\ handling'.orphan = 0 => handling' = handling /\ handling' \notin net'
    <3>1. \A q \in Pending : Left(q).orphan # 0
      BY <1>a DEF TypeOK, Left
    <3>2. handling' # NoRequest /\ handling'.orphan = 0 => handling' = handling
      BY <2>1, <3>1 DEF Lose, Orphan, Pending
    <3> QED BY <1>a, <2>1, <3>1, <3>2 DEF Lose, Orphan, Pending, Live
  <2>4. Live'
    BY <1>a, <2>1, <2>2, <2>3 DEF Live, Lose
  <2>5. Heard'
    BY <1>a, <2>1 DEF Heard, Lose
  <2> QED BY <2>4, <2>5
<1>10. CASE UNCHANGED vars
  BY <1>a, <1>10 DEF vars, serverVars, server, workerVars, Live, Heard, Pending
<1> QED BY <1>1, <1>2, <1>3, <1>4, <1>5, <1>6, <1>7, <1>8, <1>9, <1>10, StepKinds

LEMMA InitIInv == Init => IInv
<1> SUFFICES ASSUME Init PROVE IInv
  OBVIOUS
<1>1. TypeOK
  BY InitTypeOK
<1>2. Pending = {}
  BY DEF Init, Pending
<1>3. ServerInv /\ NothingTorn
  BY DEF Init, ServerInv, NothingTorn, OnDisk
<1>4. PostsNameShards /\ HoldersHoldShards /\ Waiting /\ Heard /\ Live
  BY <1>2 DEF Init, PostsNameShards, HoldersHoldShards, Waiting, Heard, Live
<1> QED BY <1>1, <1>3, <1>4 DEF IInv

\* The inductive invariant holds in every reachable state.
THEOREM Invariance == Spec => []IInv
<1>1. IInv /\ [Next]_vars => IInv'
  BY NextTypeOK, NextServerInv, NextNothingTorn, NextPostsNameShards, NextHolders, NextLiveHeard DEF IInv
<1> QED BY InitIInv, <1>1, PTL DEF Spec

\* Every variable keeps its type.
THEOREM TypeCorrect == Spec => []TypeOK
<1>1. IInv => TypeOK
  BY DEF IInv
<1> QED BY Invariance, <1>1, PTL

\* A shard counted as done has its whole result in the directory served.
THEOREM DoneDurable == Spec => []DoneIsDurable
<1>1. IInv => DoneIsDurable
  <2> SUFFICES ASSUME IInv, NEW s \in done PROVE disk[campaign][s] \in Results
    BY DEF DoneIsDurable
  <2>1. s \in Shards /\ disk[campaign][s] # NoFile
    BY DEF IInv, TypeOK, LeaseTypeOK, ServerInv, OnDisk
  <2> QED BY <2>1 DEF IInv, TypeOK, NothingTorn
<1> QED BY Invariance, <1>1, PTL

\* A shard with a file is not handed out again.
THEOREM RecordedNotLeasable == Spec => []RecordedIsNotLeasable
<1>1. IInv => RecordedIsNotLeasable
  BY DEF IInv, ServerInv, RecordedIsNotLeasable, Leasable
<1> QED BY Invariance, <1>1, PTL

\* The rename fills an empty entry: the shard being written has no file yet.
LEMMA RenameFills ==
    ASSUME IInv, Rename
    PROVE  /\ handling.shard \in Shards /\ campaign \in Campaigns /\ handling \in Requests
           /\ disk[campaign][handling.shard] = NoFile
           /\ disk' = [disk EXCEPT ![campaign][handling.shard] =
                         [shard |-> handling.shard, campaign |-> handling.campaign,
                          by |-> handling.from]]
  <1>1. handling.shard \in Shards /\ campaign \in Campaigns /\ handling \in Requests
    BY DEF IInv, TypeOK, ServerInv, PostsNameShards, Pending, Rename
  <1>2. disk[campaign][handling.shard] = NoFile
    BY <1>1 DEF IInv, ServerInv, OnDisk, Rename
  <1> QED BY <1>1, <1>2 DEF Rename

\* A recorded result is never replaced, whatever the campaigns.
THEOREM ResultsFinal == Spec => ResultsAreFinal
<1>1. IInv /\ [Next]_vars => [\A c \in Campaigns : \A s \in Shards :
                                 disk[c][s] \in Results => disk'[c][s] = disk[c][s]]_vars
  <2> SUFFICES ASSUME IInv, [Next]_vars, NEW c \in Campaigns, NEW s \in Shards, disk[c][s] \in Results
               PROVE  disk'[c][s] = disk[c][s]
    OBVIOUS
  <2>1. CASE Rename
    <3>1. s # handling.shard \/ c # campaign
      BY <2>1, RenameFills
    <3>2. disk \in [Campaigns -> [Shards -> Results \cup {NoFile, Torn}]]
      BY DEF IInv, TypeOK
    <3> QED BY <2>1, <3>1, <3>2 DEF Rename
  <2>2. CASE UNCHANGED disk
    BY <2>2
  <2> QED BY <2>1, <2>2, OnlyRenameWrites
<1> QED BY Invariance, <1>1, PTL DEF Spec, ResultsAreFinal

-----------------------------------------------------------------------------
(* One campaign                                                            *)

LEMMA FilesStay ==
    ASSUME IInv, [Next]_vars, NEW c \in Campaigns, NEW s \in Shards, disk[c][s] \in Results
    PROVE  disk'[c][s] \in Results
  <1>1. CASE Rename
    <2>1. s # handling.shard \/ c # campaign
      BY <1>1, RenameFills
    <2>2. disk \in [Campaigns -> [Shards -> Results \cup {NoFile, Torn}]]
      BY DEF IInv, TypeOK
    <2> QED BY <1>1, <2>1, <2>2 DEF Rename
  <1>2. CASE UNCHANGED disk
    BY <1>2
  <1> QED BY <1>1, <1>2, OnlyRenameWrites

LEMMA DoneHasFile == ASSUME IInv, NEW s \in done PROVE s \in Shards /\ disk[campaign][s] \in Results
  <1>1. s \in Shards /\ disk[campaign][s] # NoFile
    BY DEF IInv, TypeOK, LeaseTypeOK, ServerInv, OnDisk
  <1> QED BY <1>1 DEF IInv, TypeOK, NothingTorn

LEMMA NextAckedInv ==
    ASSUME NEW c0, Campaigns = {c0}, IInv, AckedInv, [Next]_vars
    PROVE  AckedInv'
<1>a. TypeOK /\ ServerInv /\ HoldersHoldShards /\ Waiting /\ Live /\ Heard /\ TypeOK'
  BY NextTypeOK DEF IInv
<1>b. campaign = c0 /\ \A w \in Workers : serves[HostOf[w]] = c0 /\ serves'[HostOf[w]] = c0
  BY <1>a DEF TypeOK
<1>1. \A a \in acked : disk'[a[1]][a[2]] \in Results
  BY <1>a, FilesStay DEF AckedInv, AckedIsDurable, TypeOK
<1>2. AckedIsDurable'
  <2>1. CASE UNCHANGED acked
    BY <1>1, <2>1 DEF AckedIsDurable
  <2>2. ASSUME NEW w \in Workers, HearDone(w) PROVE AckedIsDurable'
    <3>1. inbox[w].code = 200 => disk[c0][job[w]] \in Results /\ job[w] \in Shards
      BY <1>a, <1>b, <2>2 DEF HearDone, Hear, AckedInv, HoldersHoldShards
    <3>2. inbox[w].code = 200 => disk'[c0][job[w]] \in Results
      BY <3>1, FilesStay
    <3>3. acked' = IF inbox[w].code = 200 THEN acked \cup {<<c0, job[w]>>} ELSE acked
      BY <1>b, <2>2 DEF HearDone
    <3> QED BY <1>1, <3>2, <3>3 DEF AckedIsDurable
  <2>3. (\E w \in Workers : HearDone(w)) \/ UNCHANGED acked
    BY Steps DEF HandleLease, DiscardDuplicate, BeginWrite, HandleRelease, WriteFails, Rename, Commit,
       ServerCrash, Tick, ServerStart, AskForWork, Retire, Send, HearLease, Finish, Abort,
       HearRelease, GiveUpRelease, ConnectionBreaks, HearRefused, Launch, HostCrash, Signal, vars,
       historyVars
  <2> QED BY <2>1, <2>2, <2>3
\* Told(w): the thread has a 200 to its /done in hand.
<1> DEFINE Told(w) == inbox[w] # NoReply /\ phase[w] = "post" /\ inbox[w].code = 200
<1> DEFINE Safe == \A w \in Workers : Told(w)' => disk'[c0][job'[w]] \in Results
<1>c. \A w \in Workers : Told(w) => job[w] \in Shards /\ disk'[c0][job[w]] \in Results
  BY <1>a, <1>b, FilesStay DEF AckedInv, HoldersHoldShards
<1>d. ASSUME \A w \in Workers : Told(w)' => Told(w) /\ job'[w] = job[w] PROVE Safe
  BY <1>c, <1>d
\* An answer other than 200 to a /done tells nobody anything.
<1>e. ASSUME NEW r \in Pending, NEW a \in Replies, Reply(r, a), UNCHANGED <<phase, job>>,
             r.kind = "post" /\ a.code = 200 => r.shard \in Shards /\ disk'[c0][r.shard] \in Results
      PROVE  Safe
  <2>1. r.orphan = 0 => r.from \in Workers /\ r.kind = phase[r.from] /\ r.shard = job[r.from]
    BY <1>a DEF Live, Pending, TypeOK, Requests
  <2>2. ASSUME NEW w \in Workers, Told(w)', ~(r.orphan = 0 /\ r.from = w) PROVE disk'[c0][job'[w]] \in Results
    <3>1. inbox'[w] = inbox[w]
      BY <1>a, <1>e, <2>2 DEF Reply, TypeOK
    <3> QED BY <1>c, <1>e, <2>2, <3>1
  <2>3. ASSUME r.orphan = 0, Told(r.from)' PROVE disk'[c0][job'[r.from]] \in Results
    <3>1. inbox'[r.from] = a
      BY <1>a, <1>e, <2>1, <2>3 DEF Reply, TypeOK
    <3> QED BY <1>e, <2>1, <2>3, <3>1
  <2> QED BY <2>2, <2>3
<1>f. \A code \in {200, 204, 409, 500}, s \in Shards \cup {NoShard} :
         Answer(code, s) \in Replies /\ Answer(code, s).code = code
  BY DEF Answer, Replies
<1>3. Safe
  <2>1. ASSUME NEW r \in net, HandleLease(r) \/ HandleRelease(r) PROVE Safe
    <3>1. r \in Pending /\ r.kind # "post" /\ UNCHANGED <<phase, job>>
      BY <2>1 DEF HandleLease, HandleRelease, Take, Pending
    <3>2. PICK a \in Replies : Reply(r, a)
      BY <1>f, <2>1 DEF HandleLease, HandleRelease, Leasable
    <3> QED BY <1>e, <3>1, <3>2
  <2>2. ASSUME NEW r \in net, DiscardDuplicate(r) PROVE Safe
    <3>1. r \in Pending /\ UNCHANGED <<phase, job, disk>> /\ r.shard \in done /\ Reply(r, Answer(200, NoShard))
      BY <2>2 DEF DiscardDuplicate, Take, Pending
    <3>2. r.shard \in Shards /\ disk'[c0][r.shard] \in Results
      BY <1>b, <3>1, DoneHasFile
    <3> QED BY <1>e, <1>f, <3>1, <3>2
  <2>3. CASE WriteFails
    <3>1. handling \in Pending /\ UNCHANGED <<phase, job>> /\ Reply(handling, Answer(500, NoShard))
      BY <1>a, <2>3 DEF WriteFails, Pending, ServerInv
    <3> QED BY <1>e, <1>f, <3>1
  <2>4. CASE Commit
    <3>1. handling \in Pending /\ UNCHANGED <<phase, job, disk, campaign>> /\ Reply(handling, Answer(200, NoShard))
      BY <1>a, <2>4 DEF Commit, Pending, ServerInv
    <3>2. handling.shard \in OnDisk(campaign)
      BY <1>a, <2>4 DEF Commit, ServerInv
    <3>3. handling.shard \in Shards /\ disk'[c0][handling.shard] \in Results
      BY <1>a, <1>b, <3>1, <3>2 DEF OnDisk, TypeOK, IInv, NothingTorn
    <3> QED BY <1>e, <1>f, <3>1, <3>3
  <2>5. CASE (\E r \in net : BeginWrite(r)) \/ Rename \/ \E c \in Campaigns : ServerStart(c)
    BY <1>d, <2>5 DEF BeginWrite, Rename, ServerStart, workerVars
  <2>6. CASE ServerCrash
    BY <1>a, <1>d, <2>6 DEF ServerCrash, Cut, TypeOK
  <2>7. CASE \E w \in Workers : Send(w)
    BY <1>d, <2>7 DEF Send
  <2>8. ASSUME NEW w \in Workers,
               AskForWork(w) \/ Retire(w) \/ Finish(w) \/ Abort(w) \/ GiveUpRelease(w)
        PROVE  Safe
    <3>1. inbox[w] = NoReply /\ UNCHANGED inbox
      BY <1>a, <2>8 DEF AskForWork, Retire, Finish, Abort, GiveUpRelease, Waiting, Heard
    <3>2. \A v \in Workers \ {w} : phase'[v] = phase[v] /\ job'[v] = job[v]
      BY <1>a, <2>8 DEF AskForWork, Retire, Finish, Abort, GiveUpRelease, SetPhase, TypeOK
    <3> QED BY <1>d, <3>1, <3>2
  <2>9. ASSUME NEW w \in Workers, HearLease(w) \/ HearDone(w) \/ HearRelease(w) PROVE Safe
    <3>1. inbox' = [inbox EXCEPT ![w] = NoReply]
      BY <2>9 DEF HearLease, HearDone, HearRelease, Hear
    <3>2. \A v \in Workers \ {w} : phase'[v] = phase[v]
      BY <1>a, <2>9 DEF HearLease, HearDone, HearRelease, SetPhase, TypeOK
    <3>3. \A v \in Workers \ {w} : job'[v] = job[v]
      BY <1>a, <2>9 DEF HearLease, HearDone, HearRelease, TypeOK
    <3>4. inbox'[w] = NoReply /\ \A v \in Workers \ {w} : inbox'[v] = inbox[v]
      BY <1>a, <3>1 DEF TypeOK
    <3> QED BY <1>d, <3>2, <3>3, <3>4
  <2>10. ASSUME NEW h \in Hosts, Launch(h) PROVE Safe
    <3>1. UNCHANGED <<inbox, job>>
      BY <2>10 DEF Launch
    <3>2. \A w \in Workers : phase'[w] = "post" => phase[w] = "post"
      BY <1>a, <2>10 DEF Launch, TypeOK
    <3> QED BY <1>d, <3>1, <3>2
  <2>11. CASE Tick \/ (\E h \in Hosts : Signal(h) /\ ~Die(h)) \/ UNCHANGED vars
    BY <1>d, <2>11 DEF Tick, Signal, vars, workerVars
  <2>12. CASE Breaks
    <3>1. PICK W \in SUBSET Workers : Lose(W)
      BY <1>a, <2>12, BreaksLose
    <3> QED BY <1>d, <3>1 DEF Lose
  <2> QED BY <2>1, <2>2, <2>3, <2>4, <2>5, <2>6, <2>7, <2>8, <2>9, <2>10, <2>11, <2>12, StepKinds DEF Aside
<1> QED BY <1>b, <1>2, <1>3 DEF AckedInv

\* With one campaign, what a thread was told is recorded stays recorded.
THEOREM AckedDurable ==
    ASSUME NEW c0, Campaigns = {c0}
    PROVE  Spec => []AckedIsDurable
<1>1. Init => AckedInv
  BY DEF Init, AckedInv, AckedIsDurable
<1>2. IInv /\ AckedInv /\ [Next]_vars => AckedInv'
  BY NextAckedInv
<1>3. AckedInv => AckedIsDurable
  BY DEF AckedInv
<1> QED BY <1>1, <1>2, <1>3, Invariance, PTL DEF Spec

\* With one campaign the result files implement the ledger: the rename is
\* Record, every other step changes no entry.
THEOREM FleetImplementsLedger ==
    ASSUME NEW c0, Campaigns = {c0}
    PROVE  Spec => ImplementsLedger
<1>1. Init => Ledger!Init
  BY DEF Init, Ledger!Init, Units
<1>2. IInv /\ [Next]_vars => [Ledger!Next]_([u \in Units |-> disk[u[1]][u[2]]])
  <2> SUFFICES ASSUME IInv, [Next]_vars PROVE [Ledger!Next]_([u \in Units |-> disk[u[1]][u[2]]])
    OBVIOUS
  <2> DEFINE entries == [u \in Units |-> disk[u[1]][u[2]]]
  <2>1. CASE UNCHANGED disk
    BY <2>1
  <2>2. CASE Rename
    <3> DEFINE file == [shard |-> handling.shard, campaign |-> handling.campaign, by |-> handling.from]
               unit == <<campaign, handling.shard>>
    <3>1. /\ handling.shard \in Shards /\ campaign \in Campaigns /\ handling \in Requests
          /\ disk[campaign][handling.shard] = NoFile
          /\ disk' = [disk EXCEPT ![campaign][handling.shard] = file]
      BY <2>2, RenameFills
    <3>2. unit \in Units /\ entries[unit] = NoFile
      BY <3>1 DEF Units
    <3>3. handling.campaign = campaign
      BY <3>1 DEF Requests
    <3>4. file \in ResultsOf(unit)
      BY <3>1, <3>3 DEF ResultsOf, Results, Requests
    <3>5. disk \in [Campaigns -> [Shards -> Results \cup {NoFile, Torn}]]
      BY DEF IInv, TypeOK
    <3>6. \A c \in Campaigns : \A s \in Shards :
             disk'[c][s] = IF c = campaign /\ s = handling.shard THEN file ELSE disk[c][s]
      BY <3>1, <3>5
    <3>7. ASSUME NEW u \in Units
          PROVE  disk'[u[1]][u[2]] = IF u = unit THEN file ELSE disk[u[1]][u[2]]
      <4>1. /\ u[1] \in Campaigns /\ u[2] \in Shards
            /\ u = unit <=> u[1] = campaign /\ u[2] = handling.shard
        BY DEF Units
      <4> HIDE DEF file, unit
      <4>2. disk'[u[1]][u[2]] = IF u[1] = campaign /\ u[2] = handling.shard THEN file ELSE disk[u[1]][u[2]]
        BY <3>6, <4>1
      <4> QED BY <4>1, <4>2
    <3> HIDE DEF file, unit
    <3>8. [u \in Units |-> disk'[u[1]][u[2]]] = [u \in Units |-> IF u = unit THEN file ELSE disk[u[1]][u[2]]]
      BY <3>7, Zenon
    <3>9. entries' = [entries EXCEPT ![unit] = file]
      BY <3>2, <3>8, Zenon
    <3>10. \E r \in ResultsOf(unit) : entries' = [entries EXCEPT ![unit] = r]
      BY <3>4, <3>9
    <3>11. Ledger!Next
      BY <3>2, <3>10 DEF Ledger!Next, Ledger!Record
    <3> QED BY <3>11
  <2> QED BY <2>1, <2>2, OnlyRenameWrites
<1> QED BY <1>1, <1>2, Invariance, PTL DEF Spec, ImplementsLedger, Ledger!Spec
=============================================================================
