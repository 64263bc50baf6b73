------------------------------- MODULE Fleet -------------------------------
(***************************************************************************)
(* `superopt serve` and `superopt work`: one lease server, any number of   *)
(* worker hosts with several threads each, HTTP between them.              *)
(*                                                                         *)
(*  - The server is one thread: it takes a request, runs the whole handler *)
(*    and answers.  /done writes the result file before it marks the shard *)
(*    done, so a crash can fall between the two.  Its memory (`done`,      *)
(*    `leases`) dies with it; the result files (`disk`) do not.            *)
(*  - A worker thread loops lease -> run -> post, and reads its host's     *)
(*    signal count at the places where the code reads DRAIN and ABORT.     *)
(*  - A request outlives its connection: when the connection breaks the    *)
(*    sender retries (retry_transport) while the server may still find the *)
(*    first copy in its queue.  An answer can be lost the same way.        *)
(*  - A campaign is one --len with its own out directory.  The server may  *)
(*    be restarted on another campaign; a worker learns its campaign from  *)
(*    GET /status when it starts and never again.                          *)
(***************************************************************************)
EXTENDS Coordinator

CONSTANTS Workers,      \* worker threads
          Hosts,        \* worker processes
          HostOf,       \* the process of a thread
          Campaigns,    \* the (len, out dir) pairs the operator serves
          NoFile,       \* disk entry: no file
          Torn,         \* disk entry: a file cut short
          NoShard, NoReply, NoRequest, Nobody,
          MaxFaults     \* bound: crashes, lost connections, failed writes,
                        \* first signals to a host

ASSUME FleetAssumption ==
    /\ HostOf \in [Workers -> Hosts]
    /\ MaxFaults \in Nat
    /\ Campaigns # {}
    /\ NoShard \notin Shards
    /\ Nobody \notin Workers
    /\ Torn # NoFile

VARIABLES
    disk,     \* the shard files of every out directory
    pc,       \* where the server is: down, idle, or inside a /done
    campaign, \* the campaign it serves
    handling, \* the /done it is inside
    net,      \* requests waiting at the server
    phase,    \* where each thread is in its loop
    job,      \* the shard it holds
    conn,     \* is it waiting for an answer on an open connection?
    inbox,    \* the answer on that connection
    serves,   \* the campaign each host believes in
    signals,  \* signals each host has received
    faults,   \* disturbances so far
    acked,    \* history: results some thread was told are recorded
    lessee    \* history: who the latest lease of a shard was granted to

server == <<pc, campaign, handling>>
serverVars == <<disk, server, net>>
workerVars == <<phase, job, conn, inbox, serves, signals>>
historyVars == <<faults, acked, lessee>>
vars == <<done, leases, serverVars, workerVars, historyVars>>

Results == [shard : Shards, campaign : Campaigns, by : Workers]
Requests == [kind : {"lease", "post", "release"}, from : Workers,
             shard : Shards \cup {NoShard}, campaign : Campaigns, orphan : 0 .. MaxFaults + 1]
Replies == [code : {200, 204, 409, 500}, shard : Shards \cup {NoShard}]

ASSUME SentinelAssumption ==
    /\ NoFile \notin Results /\ Torn \notin Results
    /\ NoRequest \notin Requests /\ NoReply \notin Replies

TypeOK ==
    /\ LeaseTypeOK
    /\ disk \in [Campaigns -> [Shards -> Results \cup {NoFile, Torn}]]
    /\ pc \in {"down", "idle", "writing", "renamed"}
    /\ campaign \in Campaigns
    /\ handling \in Requests \cup {NoRequest}
    /\ net \in SUBSET Requests
    /\ phase \in [Workers -> {"off", "idle", "lease", "run", "post", "release"}]
    /\ job \in [Workers -> Shards \cup {NoShard}]
    /\ conn \in [Workers -> BOOLEAN]
    /\ inbox \in [Workers -> Replies \cup {NoReply}]
    /\ serves \in [Hosts -> Campaigns]
    /\ signals \in [Hosts -> 0 .. 2]
    /\ faults \in 0 .. MaxFaults
    /\ acked \in SUBSET (Campaigns \X Shards)
    /\ lessee \in [Shards -> Workers \cup {Nobody}]

ThreadsOf(h) == {w \in Workers : HostOf[w] = h}
Stopped(h) == \A w \in ThreadsOf(h) : phase[w] = "off"
OnDisk(c) == {s \in Shards : disk[c][s] # NoFile}

Init ==
    /\ disk = [c \in Campaigns |-> [s \in Shards |-> NoFile]]
    /\ pc = "idle"
    /\ campaign \in Campaigns
    /\ handling = NoRequest
    /\ serves = [h \in Hosts |-> campaign]
    /\ done = {}
    /\ leases = [s \in Shards |-> Free]
    /\ net = {}
    /\ phase = [w \in Workers |-> "off"]
    /\ job = [w \in Workers |-> NoShard]
    /\ conn = [w \in Workers |-> FALSE]
    /\ inbox = [w \in Workers |-> NoReply]
    /\ signals = [h \in Hosts |-> 0]
    /\ faults = 0
    /\ acked = {}
    /\ lessee = [s \in Shards |-> Nobody]

-----------------------------------------------------------------------------
(* The server                                                              *)

Answer(code, s) == [code |-> code, shard |-> s]

\* Answer r on its connection, if anyone still listens there.
Reply(r, answer) ==
    inbox' = IF r.orphan = 0 THEN [inbox EXCEPT ![r.from] = answer] ELSE inbox

\* These threads lose their connection.  All go on retrying, except that a
\* /release is sent once, best effort.
Cut(lost) ==
    LET gone == {w \in lost : phase[w] = "release"}
    IN /\ conn' = [w \in Workers |-> conn[w] /\ w \notin lost]
       /\ inbox' = [w \in Workers |-> IF w \in lost THEN NoReply ELSE inbox[w]]
       /\ phase' = [w \in Workers |-> IF w \in gone THEN "off" ELSE phase[w]]
       /\ job' = [w \in Workers |-> IF w \in gone THEN NoShard ELSE job[w]]

ServerUp == pc # "down"
Take(r, kind) == pc = "idle" /\ r.kind = kind /\ net' = net \ {r}

HandleLease(r) ==
    /\ Take(r, "lease")
    /\ \/ /\ r.campaign # campaign
          /\ Reply(r, Answer(409, NoShard))
          /\ UNCHANGED <<done, leases, lessee>>
       \/ /\ r.campaign = campaign
          /\ \E s \in Leasable : /\ Lease(s)
                                 /\ Reply(r, Answer(200, s))
                                 /\ lessee' = [lessee EXCEPT ![s] = r.from]
       \/ /\ r.campaign = campaign
          /\ Leasable = {}
          /\ Reply(r, Answer(204, NoShard))
          /\ UNCHANGED <<done, leases, lessee>>
    /\ UNCHANGED <<disk, server, phase, job, conn, serves, signals, faults, acked>>

\* Mutant of DiscardDuplicate: returns without an answer.
DiscardDuplicate_Silent(r) ==
    /\ Take(r, "post")
    /\ r.shard \in done
    /\ UNCHANGED <<done, leases, disk, server, workerVars, historyVars>>

\* /done of a shard that is already done: discarded with 200.
DiscardDuplicate(r) ==
    /\ Take(r, "post")
    /\ r.shard \in done
    /\ Reply(r, Answer(200, NoShard))
    /\ UNCHANGED <<done, leases, disk, server, phase, job, conn, serves, signals,
                   historyVars>>

\* Mutant of BeginWrite: no temporary file, the result file is written in place.
BeginWrite_InPlace(r) ==
    /\ Take(r, "post")
    /\ r.shard \notin done
    /\ pc' = "writing"
    /\ handling' = r
    /\ disk' = [disk EXCEPT ![campaign][r.shard] = Torn]
    /\ UNCHANGED <<done, leases, campaign, workerVars, historyVars>>

\* Mutant of BeginWrite: is_done is not asked.
BeginWrite_NoCheck(r) ==
    /\ Take(r, "post")
    /\ pc' = "writing"
    /\ handling' = r
    /\ UNCHANGED <<done, leases, disk, campaign, workerVars, historyVars>>

\* /done of an outstanding shard: start writing the temporary file.
BeginWrite(r) ==
    /\ Take(r, "post")
    /\ r.shard \notin done
    /\ pc' = "writing"
    /\ handling' = r
    /\ UNCHANGED <<done, leases, disk, campaign, workerVars, historyVars>>

\* Mutant of WriteFails: the error is swallowed.
WriteFails_Swallowed ==
    /\ pc = "writing"
    /\ faults < MaxFaults
    /\ faults' = faults + 1
    /\ pc' = "idle"
    /\ handling' = NoRequest
    /\ Reply(handling, Answer(200, NoShard))
    /\ UNCHANGED <<done, leases, disk, campaign, net, phase, job, conn, serves,
                   signals, acked, lessee>>

\* The write or the rename fails: 500, and the shard stays outstanding.
WriteFails ==
    /\ pc = "writing"
    /\ faults < MaxFaults
    /\ faults' = faults + 1
    /\ pc' = "idle"
    /\ handling' = NoRequest
    /\ Reply(handling, Answer(500, NoShard))
    /\ UNCHANGED <<done, leases, disk, campaign, net, phase, job, conn, serves,
                   signals, acked, lessee>>

\* The rename makes the whole file visible at once.
Rename ==
    /\ pc = "writing"
    /\ LET r == handling
           file == [shard |-> r.shard, campaign |-> r.campaign, by |-> r.from]
       IN disk' = [disk EXCEPT ![campaign][r.shard] = file]
    /\ pc' = "renamed"
    /\ UNCHANGED <<done, leases, campaign, handling, net, workerVars, historyVars>>

\* Only now is the shard marked done and the answer sent.
Commit ==
    /\ pc = "renamed"
    /\ Complete(handling.shard)
    /\ Reply(handling, Answer(200, NoShard))
    /\ pc' = "idle"
    /\ handling' = NoRequest
    /\ UNCHANGED <<disk, campaign, net, phase, job, conn, serves, signals, historyVars>>

HandleRelease(r) ==
    /\ Take(r, "release")
    /\ Release(r.shard)
    /\ Reply(r, Answer(200, NoShard))
    /\ UNCHANGED <<disk, server, phase, job, conn, serves, signals, historyVars>>

\* The server process dies: queue, connections and lease table are gone.
ServerCrash ==
    /\ ServerUp
    /\ faults < MaxFaults
    /\ faults' = faults + 1
    /\ pc' = "down"
    /\ handling' = NoRequest
    /\ net' = {}
    /\ Cut({w \in Workers : conn[w] /\ inbox[w] = NoReply})
    /\ Rebuild({})
    /\ lessee' = [s \in Shards |-> Nobody]
    /\ UNCHANGED <<disk, campaign, serves, signals, acked>>

\* serve_cmd: rescan the out directory, then listen.
ServerStart(c) ==
    /\ pc = "down"
    /\ pc' = "idle"
    /\ campaign' = c
    /\ Rebuild(OnDisk(c))
    /\ UNCHANGED <<disk, handling, net, workerVars, historyVars>>

Tick ==
    /\ ServerUp
    /\ Age
    /\ UNCHANGED <<serverVars, workerVars, historyVars>>

-----------------------------------------------------------------------------
(* The worker threads                                                      *)

SetPhase(w, p) == phase' = [phase EXCEPT ![w] = p]

\* work_cmd: GET /status, then start the threads.
Launch(h) ==
    /\ Stopped(h)
    /\ ServerUp
    /\ serves' = [serves EXCEPT ![h] = campaign]
    /\ signals' = [signals EXCEPT ![h] = 0]
    /\ phase' = [w \in Workers |-> IF HostOf[w] = h THEN "idle" ELSE phase[w]]
    /\ UNCHANGED <<done, leases, serverVars, job, conn, inbox, historyVars>>

\* Top of the loop: DRAIN is read here, and only here.
AskForWork(w) ==
    /\ phase[w] = "idle"
    /\ signals[HostOf[w]] = 0
    /\ SetPhase(w, "lease")
    /\ UNCHANGED <<done, leases, serverVars, job, conn, inbox, serves, signals, historyVars>>

Retire(w) ==
    /\ phase[w] = "idle"
    /\ signals[HostOf[w]] > 0
    /\ SetPhase(w, "off")
    /\ UNCHANGED <<done, leases, serverVars, job, conn, inbox, serves, signals, historyVars>>

\* One attempt of retry_transport (or the single attempt of /release).
Send(w) ==
    /\ phase[w] \in {"lease", "post", "release"}
    /\ ~conn[w]
    /\ ServerUp
    /\ net' = net \cup {[kind |-> phase[w], from |-> w, shard |-> job[w],
                         campaign |-> serves[HostOf[w]], orphan |-> 0]}
    /\ conn' = [conn EXCEPT ![w] = TRUE]
    /\ UNCHANGED <<done, leases, disk, server, phase, job, inbox, serves, signals, historyVars>>

\* The answer to a request has arrived; the connection is closed.
Hear(w, p) ==
    /\ phase[w] = p
    /\ inbox[w] # NoReply
    /\ inbox' = [inbox EXCEPT ![w] = NoReply]
    /\ conn' = [conn EXCEPT ![w] = FALSE]

HearLease(w) ==
    /\ Hear(w, "lease")
    /\ \/ /\ inbox[w].code = 200
          /\ SetPhase(w, "run")
          /\ job' = [job EXCEPT ![w] = inbox[w].shard]
       \/ /\ inbox[w].code = 204
          /\ SetPhase(w, "off")
          /\ UNCHANGED job
    /\ UNCHANGED <<done, leases, serverVars, serves, signals, historyVars>>

\* run_shard returns a result.
Finish(w) ==
    /\ phase[w] = "run"
    /\ SetPhase(w, "post")
    /\ UNCHANGED <<done, leases, serverVars, job, conn, inbox, serves, signals, historyVars>>

\* run_shard sees ABORT and discards its work.
Abort(w) ==
    /\ phase[w] = "run"
    /\ signals[HostOf[w]] = 2
    /\ SetPhase(w, "release")
    /\ UNCHANGED <<done, leases, serverVars, job, conn, inbox, serves, signals, historyVars>>

\* 200 counts as recorded; any other status drops the result.
HearDone(w) ==
    /\ Hear(w, "post")
    /\ SetPhase(w, "idle")
    /\ job' = [job EXCEPT ![w] = NoShard]
    /\ acked' = IF inbox[w].code = 200
                THEN acked \cup {<<serves[HostOf[w]], job[w]>>} ELSE acked
    /\ UNCHANGED <<done, leases, serverVars, serves, signals, faults, lessee>>

HearRelease(w) ==
    /\ Hear(w, "release")
    /\ SetPhase(w, "off")
    /\ job' = [job EXCEPT ![w] = NoShard]
    /\ UNCHANGED <<done, leases, serverVars, serves, signals, historyVars>>

\* The single /release attempt finds no server.
GiveUpRelease(w) ==
    /\ phase[w] = "release"
    /\ ~conn[w]
    /\ ~ServerUp
    /\ SetPhase(w, "off")
    /\ job' = [job EXCEPT ![w] = NoShard]
    /\ UNCHANGED <<done, leases, serverVars, conn, inbox, serves, signals, historyVars>>

-----------------------------------------------------------------------------
(* Disturbances                                                            *)

\* The request without its connection.  The label keeps two copies apart.
Left(r) == [kind |-> r.kind, from |-> r.from, shard |-> r.shard,
            campaign |-> r.campaign, orphan |-> faults + 1]

\* Nobody listens to the requests of W any more.  Those still queued may be
\* lost with the connection or stay for the server to find; one that is
\* being handled is handled to the end.
Orphan(W) ==
    LET cut == {r \in net : r.orphan = 0 /\ r.from \in W}
    IN /\ \E kept \in SUBSET cut : net' = (net \ cut) \cup {Left(r) : r \in kept}
       /\ handling' = IF handling # NoRequest /\ handling.from \in W
                      THEN Left(handling) ELSE handling
       /\ UNCHANGED <<pc, campaign>>

\* A transport error while waiting: the request or its answer is lost.
ConnectionBreaks(w) ==
    /\ conn[w]
    /\ faults < MaxFaults
    /\ faults' = faults + 1
    /\ Orphan({w})
    /\ Cut({w})
    /\ UNCHANGED <<done, leases, disk, serves, signals, acked, lessee>>

\* The process of h is gone.
Die(h) ==
    /\ Orphan(ThreadsOf(h))
    /\ phase' = [w \in Workers |-> IF HostOf[w] = h THEN "off" ELSE phase[w]]
    /\ job' = [w \in Workers |-> IF HostOf[w] = h THEN NoShard ELSE job[w]]
    /\ conn' = [w \in Workers |-> conn[w] /\ HostOf[w] # h]
    /\ inbox' = [w \in Workers |-> IF HostOf[w] = h THEN NoReply ELSE inbox[w]]

\* 409 to a lease: process::exit(1), whatever the other threads are doing.
HearRefused(w) ==
    /\ phase[w] = "lease"
    /\ inbox[w] # NoReply
    /\ inbox[w].code = 409
    /\ Die(HostOf[w])
    /\ UNCHANGED <<done, leases, disk, serves, signals, historyVars>>

\* Power loss or SIGKILL.
HostCrash(h) ==
    /\ ~Stopped(h)
    /\ faults < MaxFaults
    /\ faults' = faults + 1
    /\ Die(h)
    /\ UNCHANGED <<done, leases, disk, serves, signals, acked, lessee>>

\* The signal handler: drain, then abort, then hard exit.
Signal(h) ==
    /\ ~Stopped(h)
    /\ \/ /\ signals[h] = 0
          /\ faults < MaxFaults
          /\ faults' = faults + 1
          /\ signals' = [signals EXCEPT ![h] = 1]
          /\ UNCHANGED <<net, server, phase, job, conn, inbox>>
       \/ /\ signals[h] = 1
          /\ signals' = [signals EXCEPT ![h] = 2]
          /\ UNCHANGED <<net, server, phase, job, conn, inbox, faults>>
       \/ /\ signals[h] = 2
          /\ Die(h)
          /\ UNCHANGED <<signals, faults>>
    /\ UNCHANGED <<done, leases, disk, serves, acked, lessee>>

-----------------------------------------------------------------------------

Handle(w) ==
    \E r \in net : /\ r.from = w
                   /\ \/ HandleLease(r)   \/ DiscardDuplicate(r)
                      \/ BeginWrite(r)    \/ HandleRelease(r)
FinishDone == Rename \/ Commit
Restart == \E c \in Campaigns : ServerStart(c)
Work(w) == \/ AskForWork(w) \/ Retire(w) \/ Send(w) \/ HearLease(w) \/ HearRefused(w)
           \/ Finish(w) \/ Abort(w) \/ HearDone(w) \/ HearRelease(w) \/ GiveUpRelease(w)
Disturb == \/ WriteFails \/ ServerCrash
           \/ \E w \in Workers : ConnectionBreaks(w)
           \/ \E h \in Hosts : HostCrash(h) \/ Signal(h)

Next == \/ FinishDone \/ Restart \/ Tick \/ Disturb
        \/ \E w \in Workers : Handle(w) \/ Work(w)
        \/ \E h \in Hosts : Launch(h)

Spec == Init /\ [][Next]_vars

(***************************************************************************)
(* Fairness.  The server loop and every thread run whenever they can; the  *)
(* server's queue is first-in first-out, so no sender is passed over for   *)
(* ever while it handles the others; run_shard terminates; time passes; an *)
(* operator brings the server back and runs `work` again on a host that    *)
(* has exited (docs/fleet.md: "just start `work` again").  Nothing is      *)
(* assumed of disturbances except that there are finitely many.            *)
(***************************************************************************)
FairSpec ==
    /\ Spec
    /\ WF_vars(FinishDone) /\ WF_vars(Restart) /\ WF_vars(Tick)
    /\ \A w \in Workers : SF_vars(Handle(w)) /\ WF_vars(Work(w))
    /\ \A h \in Hosts : WF_vars(Launch(h))

-----------------------------------------------------------------------------
(* Properties                                                              *)

\* A shard the server counts as done has its whole result in the out
\* directory of the campaign: a crash right after any answer, or between the
\* rename and the mark, loses nothing (coord.rs: "Write the file BEFORE
\* marking done").
DoneIsDurable == \A s \in done : disk[campaign][s] \in Results

\* What a worker thread was told is recorded stays recorded, across server
\* crashes, lost answers, retries and second results of the same shard.
AckedIsDurable == \A a \in acked : disk[a[1]][a[2]] \in Results

\* Work that has a file is not handed out again, not even by a server that
\* was killed between the rename and the mark, or came back on another
\* campaign (coord.rs: "restart it, it rescans the dir, workers re-lease
\* what's left").
RecordedIsNotLeasable ==
    pc = "idle" => Leasable \cap OnDisk(campaign) = {}

\* A file that holds a result keeps that result: late results, retries and
\* second results of the shard never replace the recorded one.
ResultsAreFinal ==
    [][\A c \in Campaigns : \A s \in Shards :
         disk[c][s] \in Results => disk'[c][s] = disk[c][s]]_vars

\* A file in the out directory of a campaign holds a result computed in
\* that campaign (fleet.md: mixed binaries are refused).
FilesBelongToCampaign ==
    \A c \in Campaigns : \A s \in Shards :
        disk[c][s] \in Results => disk[c][s].campaign = c

\* A thread computing the shard it was the last to lease finds the shard
\* still lent out or done: nobody else can be handed the shard before the
\* lease expires (coord.rs test: no_double_lease_while_active).
LesseeKeepsLease ==
    \A s \in Shards : \A w \in Workers :
        /\ lessee[s] = w
        /\ phase[w] \in {"run", "post"}
        /\ job[w] = s
        => leases[s] # Free \/ s \in done

\* The directories of result files implement the ledger: every entry is
\* recorded once, whole, with a result of that shard of that campaign.
Units == Campaigns \X Shards
ResultsOf(u) == {r \in Results : r.campaign = u[1] /\ r.shard = u[2]}
Ledger == INSTANCE ShardLedger WITH
              ledger <- [u \in Units |-> disk[u[1]][u[2]]], Blank <- NoFile
ImplementsLedger == Ledger!Spec

\* Every shard of the campaign ends with a recorded result, whatever finite
\* number of crashes, lost messages, failed writes and shutdowns happened.
CampaignFinishes ==
    <>[](\A c \in Campaigns : \A s \in Shards : disk[c][s] \in Results)

\* A host told to drain or abort does stop.
ShutdownEnds == \A h \in Hosts : signals[h] > 0 ~> Stopped(h)
=============================================================================
