------------------------------ MODULE Recovery ------------------------------
(***************************************************************************)
(* The recovery of force-closed channels that lack the coins for their     *)
(* fees: the record in IndexedDB and its copy on the VSS server            *)
(* (src/ldk/recovery/recovery-state.ts), entered on a BumpTransaction      *)
(* event (src/ldk/recovery/use-recovery.ts and                             *)
(* src/ldk/traits/event-handler.ts), ended by a sweep of the timer or by   *)
(* the user (src/ldk/context.tsx, src/components/RecoveryBanner.tsx), and  *)
(* read back after a restart.                                              *)
(*                                                                         *)
(* A job is one call of enterRecovery, maybeAutoRecover, clearRecoveryState*)
(* or seedRecoveryVssVersion; calls may overlap.                           *)
(***************************************************************************)
EXTENDS Naturals, FiniteSets

CONSTANTS
  Channels,
  MaxJobs,     \* bound: jobs
  MaxTroubles, \* bound: failed requests and lost replies
  MaxRestarts  \* bound

VARIABLES
  info,     \* forceCloseInfoMap
  local,    \* the record in IndexedDB
  server,   \* the object on the server, version 0 if there is none
  version,  \* vssVersion
  jobs,     \* running jobs
  late,     \* puts and deletes the client gave up: the server may get them yet
  begun,    \* jobs so far
  troubles, restarts,
  alone,    \* history: no job began, and no late request was taken, beside the running one
  missed    \* history: a write failed, overlapped another job or was taken late, and none
            \* succeeded alone since

vars == <<info, local, server, version, jobs, late, begun, troubles, restarts,
          alone, missed>>

NoRecord == [status |-> "none", channels |-> {}]
Records == [status : {"none", "needs_recovery", "sweep_confirmed"}, channels : SUBSET Channels]

Jobs == [n : 1..MaxJobs, kind : {"seed", "enter", "auto", "clear"}, channel : Channels,
         pc : {"start", "sent", "answered", "restore", "estimate", "sweep",
               "put", "done", "conflict", "get", "got", "delete", "deleted", "refused"},
         rec : Records, ver : 0..(2 * MaxJobs), retry : BOOLEAN]

TypeOK ==
  /\ info \subseteq Channels /\ local \in Records
  /\ server \in [ver : 0..(2 * MaxJobs), rec : Records] /\ version \in 0..(2 * MaxJobs)
  /\ jobs \subseteq Jobs /\ late \subseteq Jobs /\ begun \in 0..MaxJobs
  /\ troubles \in 0..MaxTroubles /\ restarts \in 0..MaxRestarts /\ alone \in BOOLEAN /\ missed \in BOOLEAN

Init ==
  /\ info = {} /\ local = NoRecord /\ server = [ver |-> 0, rec |-> NoRecord] /\ version = 0
  /\ jobs = {} /\ late = {} /\ begun = 0 /\ troubles = 0 /\ restarts = 0
  /\ alone = FALSE /\ missed = FALSE

-----------------------------------------------------------------------------
(* Jobs. *)

Job(kind, c, pc, rec) ==
  [n |-> begun + 1, kind |-> kind, channel |-> c, pc |-> pc, rec |-> rec, ver |-> 0, retry |-> FALSE]

Begins(job) ==
  /\ begun < MaxJobs /\ begun' = begun + 1
  /\ jobs' = jobs \union {job}
  /\ alone' = (jobs = {}) /\ missed' = (missed \/ jobs # {})

\* The requests among the jobs s that the server would act upon.
Travelling(s) == {j \in s : j.pc \in {"put", "delete"}}

Becomes(j, new) == jobs' = (jobs \ {j}) \union {new}
Ends(j) == jobs' = jobs \ {j}

\* ChannelClosed: the balance of a force-closed channel is remembered.
ForceClosed(c) ==
  /\ c \notin info /\ info' = info \union {c}
  /\ UNCHANGED <<local, server, version, jobs, late, begun, troubles, restarts, alone, missed>>

\* BumpTransaction without a confirmed coin: enterRecovery.
Bump(c) ==
  /\ c \in info /\ Begins(Job("enter", c, "start", NoRecord))
  /\ UNCHANGED <<info, local, server, version, late, troubles, restarts>>

\* It reads the record, and adds the channel to it ...
EnterReads(j) ==
  /\ j \in jobs /\ j.kind = "enter" /\ j.pc = "start"
  /\ IF j.channel \in local.channels THEN Ends(j)
     ELSE Becomes(j, [j EXCEPT !.pc = "estimate",
            !.rec = [status |-> IF local = NoRecord THEN "needs_recovery" ELSE local.status,
                     channels |-> local.channels \union {j.channel}]])
  /\ UNCHANGED <<info, local, server, version, late, begun, troubles, restarts, alone, missed>>

\* maybeAutoRecover, one at a time: reads the record and sweeps ...
AutoRecover(c) ==
  /\ {j \in jobs : j.kind = "auto"} = {} /\ local.status = "needs_recovery"
  /\ Begins(Job("auto", c, "sweep", [local EXCEPT !.status = "sweep_confirmed"]))
  /\ UNCHANGED <<info, local, server, version, late, troubles, restarts>>

SweepsNothing(j) ==
  /\ j \in jobs /\ j.pc = "sweep" /\ Ends(j)
  /\ UNCHANGED <<info, local, server, version, late, begun, troubles, restarts, alone, missed>>

\* ... writeRecoveryState, after the estimate or the sweep: the store, then
\* the server.
Writes(j) ==
  /\ j \in jobs /\ j.pc \in {"estimate", "sweep"}
  /\ local' = j.rec
  /\ Becomes(j, [j EXCEPT !.pc = "put", !.ver = version])
  /\ UNCHANGED <<info, server, version, late, begun, troubles, restarts, alone, missed>>

PutArrives(j) ==
  /\ j \in jobs /\ j.pc = "put"
  /\ IF j.ver = server.ver
     THEN server' = [ver |-> server.ver + 1, rec |-> j.rec] /\ Becomes(j, [j EXCEPT !.pc = "done"])
     ELSE Becomes(j, [j EXCEPT !.pc = "conflict"]) /\ UNCHANGED server
  /\ UNCHANGED <<info, local, version, late, begun, troubles, restarts, alone, missed>>

PutAnswered(j) ==
  /\ j \in jobs /\ j.pc = "done"
  /\ version' = j.ver + 1 /\ Ends(j) /\ missed' = (missed /\ ~alone)
  /\ UNCHANGED <<info, local, server, late, begun, troubles, restarts, alone>>

\* The first conflict is retried, the second is only reported.
Conflict(j) ==
  /\ j \in jobs /\ j.pc = "conflict"
  /\ IF j.retry THEN Ends(j) ELSE Becomes(j, [j EXCEPT !.pc = "get", !.retry = TRUE])
  /\ UNCHANGED <<info, local, server, version, late, begun, troubles, restarts, alone, missed>>

GetArrives(j) ==
  /\ j \in jobs /\ j.pc = "get" /\ Becomes(j, [j EXCEPT !.pc = "got", !.ver = server.ver])
  /\ UNCHANGED <<info, local, server, version, late, begun, troubles, restarts, alone, missed>>

\* Faulty variant: the retry uses the version the put had.
GetAnsweredKeepsVersion(j) ==
  /\ j \in jobs /\ j.pc = "got"
  /\ Becomes(j, [j EXCEPT !.pc = "put", !.ver = version])
  /\ UNCHANGED <<info, local, server, version, late, begun, troubles, restarts, alone, missed>>

GetAnswered(j) ==
  /\ j \in jobs /\ j.pc = "got"
  /\ version' = j.ver /\ Becomes(j, [j EXCEPT !.pc = "put"])
  /\ UNCHANGED <<info, local, server, late, begun, troubles, restarts, alone, missed>>

\* The banner's dismiss, or the console's: clearRecoveryState.
Dismiss(c) ==
  /\ local # NoRecord /\ local' = NoRecord
  /\ Begins([Job("clear", c, "delete", NoRecord) EXCEPT !.ver = version])
  /\ UNCHANGED <<info, server, version, late, troubles, restarts>>

DeleteArrives(j) ==
  /\ j \in jobs /\ j.pc = "delete"
  /\ IF j.ver = server.ver
     THEN server' = [ver |-> 0, rec |-> NoRecord] /\ Becomes(j, [j EXCEPT !.pc = "deleted"])
     ELSE Becomes(j, [j EXCEPT !.pc = "refused"]) /\ UNCHANGED server
  /\ UNCHANGED <<info, local, version, late, begun, troubles, restarts, alone, missed>>

\* A refused delete is only reported: the record is still on the server.
DeleteAnswered(j) ==
  /\ j \in jobs /\ j.pc \in {"deleted", "refused"} /\ Ends(j)
  /\ IF j.pc = "deleted" THEN version' = 0 /\ missed' = (missed /\ ~alone)
     ELSE missed' = TRUE /\ UNCHANGED version
  /\ UNCHANGED <<info, local, server, late, begun, troubles, restarts, alone>>

\* A request fails, times out or its reply is lost; the server may get a put or a
\* delete later, or never.  A seed writes nothing that could miss.
Fails(j) ==
  /\ j \in jobs /\ j.pc \in {"sent", "answered", "put", "done", "get", "got", "delete", "deleted"}
  /\ troubles < MaxTroubles /\ troubles' = troubles + 1
  /\ Ends(j) /\ late' = late \union Travelling({j})
  /\ missed' = (missed \/ j.kind # "seed")
  /\ UNCHANGED <<info, local, server, version, begun, restarts, alone>>

\* The server gets a request that nobody waits for any more.
LateArrives(j) ==
  /\ j \in late /\ late' = late \ {j}
  /\ IF j.ver = server.ver
     THEN /\ server' = IF j.pc = "put" THEN [ver |-> server.ver + 1, rec |-> j.rec]
                       ELSE [ver |-> 0, rec |-> NoRecord]
          /\ alone' = FALSE /\ missed' = TRUE
     ELSE UNCHANGED <<server, alone, missed>>
  /\ UNCHANGED <<info, local, version, jobs, begun, troubles, restarts>>

-----------------------------------------------------------------------------
(* Restart. *)

\* The tab is gone with its jobs, not what they have sent; the next start seeds the version.
Restart(c) ==
  /\ restarts < MaxRestarts /\ restarts' = restarts + 1
  /\ begun < MaxJobs /\ begun' = begun + 1
  /\ info' = {} /\ version' = 0
  /\ jobs' = {Job("seed", c, "sent", NoRecord)} /\ late' = late \union Travelling(jobs)
  /\ alone' = TRUE /\ missed' = (missed \/ jobs # {})
  /\ UNCHANGED <<local, server, troubles>>

SeedArrives(j) ==
  /\ j \in jobs /\ j.pc = "sent"
  /\ Becomes(j, [j EXCEPT !.pc = "answered", !.ver = server.ver, !.rec = server.rec])
  /\ UNCHANGED <<info, local, server, version, late, begun, troubles, restarts, alone, missed>>

\* The version, and the record if the store has none.
SeedAnswered(j) ==
  /\ j \in jobs /\ j.pc = "answered"
  /\ version' = IF j.ver = 0 THEN version ELSE j.ver
  /\ IF j.ver # 0 /\ local = NoRecord THEN Becomes(j, [j EXCEPT !.pc = "restore"]) ELSE Ends(j)
  /\ UNCHANGED <<info, local, server, late, begun, troubles, restarts, alone, missed>>

SeedRestores(j) ==
  /\ j \in jobs /\ j.pc = "restore" /\ local' = j.rec /\ Ends(j)
  /\ UNCHANGED <<info, server, version, late, begun, troubles, restarts, alone, missed>>

Next ==
  \/ \E c \in Channels : ForceClosed(c) \/ Bump(c) \/ AutoRecover(c) \/ Dismiss(c) \/ Restart(c)
  \/ \E j \in late : LateArrives(j)
  \/ \E j \in jobs : \/ EnterReads(j) \/ SweepsNothing(j) \/ Writes(j)
                     \/ PutArrives(j) \/ PutAnswered(j) \/ Conflict(j)
                     \/ GetArrives(j) \/ GetAnswered(j) \/ DeleteArrives(j) \/ DeleteAnswered(j)
                     \/ Fails(j) \/ SeedArrives(j) \/ SeedAnswered(j) \/ SeedRestores(j)

Spec == Init /\ [][Next]_vars

-----------------------------------------------------------------------------
\* When nothing is under way, the record on the server is the one in the
\* store, restarts and failed seeds included, unless the last write or delete
\* failed or overlapped another call, or an earlier one was taken late.
RecordOnServer == jobs = {} /\ ~missed => server.rec = local

\* A force-closed channel for which recovery was entered is not reported as
\* recovered before a sweep that follows.  It may be: see section 7 of the README.
ConfirmedIsSwept ==
  [][\A c \in Channels : c \in local'.channels \ local.channels => local'.status = "needs_recovery"]_vars
=============================================================================
