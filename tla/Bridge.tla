------------------------------- MODULE Bridge -------------------------------
(***************************************************************************)
(* The socket bridge (socketd_bridge.c): one process that accepts a        *)
(* connection, serves one request and closes it, while commands and        *)
(* monitors start and stop the containers it looks at and record events.   *)
(* A step is what the bridge does between two looks at shared state; a     *)
(* directory is read entry by entry, in any order, and an entry that comes *)
(* or goes during the scan is returned or not.  Names and UUIDs are        *)
(* sequences of characters as far as look-ups by prefix tell them apart.   *)
(***************************************************************************)
EXTENDS EventLog, FiniteSets, SequencesExt

CONSTANTS Name,       \* container names
          Uuids,      \* what UUIDs the containers may have: functions from Name
                      \* to sequences of hexadecimal digits, all of one length
          Hex,        \* the digits
          FirstCap,   \* the first capacity of a record array (16)
          MaxRec,     \* container records that fit in DS_SOCKETD_MAX_PAYLOAD
          MaxPoll,    \* event records that do
          MaxRestart, \* bound: restart events of the bridge
          Topics      \* which of "list", "ref", "events" and "log" are explored

None == <<>>          \* no name

Me == "bridge"        \* the bridge as a writer of events

Uuid == UNION {{u[n] : n \in Name} : u \in Uuids}

ASSUME BridgeAssumption ==
  /\ FirstCap \in Nat /\ MaxRec \in Nat /\ MaxPoll \in Nat
  /\ 0 < FirstCap /\ FirstCap <= MaxRec /\ FirstCap <= MaxPoll
  /\ IsFiniteSet(Name) /\ None \notin Name /\ \A n \in Name : n \in Seq(Range(n))
  /\ Uuids \subseteq [Name -> Seq(Hex)] /\ \A u, v \in Uuid : Len(u) = Len(v)
  /\ Topics \subseteq {"list", "ref", "events", "log"}
  /\ Me \in Writer

VARIABLES
  topic,      \* what this behaviour is about (not in the code)
  conf, uuid, \* the installed containers and the UUIDs of their configurations
  run, pidf,  \* is the container running; its pidfile: "none", "live", "dead"
  pc, req,    \* where the bridge is, and the request it serves
  left, seen, \* directory entries it must still meet, and those it has met
  out, cap,   \* records collected and the capacity of their array
  cnt,        \* result of count_running_containers
  cur,        \* the container a reference resolved to
  resp,       \* the status sent, or "none"
  steady,     \* containers that did not change during the request
  pos,        \* position of a poll in the event file
  got, since, \* events a polling client has, and the newest time of them
  torn        \* has a compaction ever overlapped a poll?

sysVars == <<topic, conf, uuid, run, pidf>>
srvVars == <<pc, req, left, seen, out, cap, cnt, cur, resp, steady, pos>>
cliVars == <<got, since, torn>>
vars == <<sysVars, srvVars, cliVars, logVars>>

Ref == Name \union UNION {{SubSeq(u, 1, i) : i \in 1..Len(u)} : u \in Uuid}
Status == {"OK", "BAD_REQUEST", "NOT_FOUND", "INTERNAL_ERROR", "FORBIDDEN",
           "UNSUPPORTED", "ALREADY_RUNNING", "ALREADY_STOPPED"}
Ops == [list |-> {"ping", "info", "list", "listall", "images", "unknown"},
        ref |-> {"inspect", "start", "stop", "restart"}, events |-> {"poll", "pollall"},
        log |-> {"ping"}]

(* The other processes record events in the topics "events", where they    *)
(* take turns and clients poll, and "log", where they need not.            *)

(* What may arrive: a request, or one cut short, or one the header checks *)
(* refuse, or one of a peer that is not allowed to ask.                   *)
Requests ==
  {[op |-> o, ref |-> r, fault |-> "none"] :
      o \in Ops[topic], r \in IF topic = "ref" THEN Ref ELSE {<<>>}}
  \union {[op |-> o, ref |-> <<>>, fault |-> f] :
      o \in Ops[topic], f \in {"silent", "refused", "badheader", "badpayload"}}

NoRequest == [op |-> "none", ref |-> <<>>, fault |-> "none"]

Room == IF topic = "events" THEN MaxPoll ELSE MaxRec

TypeOK ==
  /\ LogTypeOK
  /\ conf \subseteq Name /\ uuid \in Uuids
  /\ run \in [Name -> BOOLEAN] /\ pidf \in [Name -> {"none", "live", "dead"}]
  /\ pc \in {"accept", "header", "payload", "hint", "prune", "pids", "confs", "exact",
             "scan", "check", "act", "recheck", "record", "recording", "poll", "sent"}
  /\ left \subseteq Name /\ seen \subseteq Name
  /\ Len(out) <= cap /\ cap \in 0..Room
  /\ cnt \in 0..Cardinality(Name)
  /\ cur \in Name \union {None}
  /\ resp \in Status \union {"none"}
  /\ steady \subseteq Name
  /\ pos \in 0..Len(hist)
  /\ got \subseteq 1..MaxEvent /\ since \in 0..MaxTime /\ torn \in BOOLEAN

Init ==
  /\ LogInit
  /\ topic \in Topics
  /\ conf \in SUBSET Name /\ uuid \in Uuids
  /\ topic # "ref" => uuid = CHOOSE u \in Uuids : TRUE
  /\ topic # "list" => conf = Name
  /\ topic # "log" => order = "turns"
  /\ run = [n \in Name |-> FALSE] /\ pidf = [n \in Name |-> "none"]
  /\ pc = "accept" /\ req = NoRequest
  /\ left = {} /\ seen = {} /\ out = <<>> /\ cap = 0 /\ cnt = 0 /\ cur = None
  /\ resp = "none" /\ steady = {} /\ pos = 0
  /\ got = {} /\ since = 0 /\ torn = FALSE

-----------------------------------------------------------------------------
(* Commands, monitors and the container itself, as the bridge meets them.  *)

Alive(n) == run[n]

(* A container changes: r is whether it runs, p what its pidfile is. *)
Becomes(n, r, p) ==
  /\ run' = [run EXCEPT ![n] = r] /\ pidf' = [pidf EXCEPT ![n] = p]
  /\ left' = IF p = "none" /\ pc \in {"hint", "prune", "pids"} THEN left \ {n} ELSE left

EnvMoves(n) ==
  /\ topic = "list" \/ (topic = "ref" /\ n = cur)   \* others do not matter to it
  /\ \/ ~run[n] /\ Becomes(n, TRUE, "live")
     \/ run[n] /\ \E p \in {"none", "dead"} : Becomes(n, FALSE, p)
     \/ run[n] /\ pidf[n] = "live" /\ Becomes(n, TRUE, "none")
  /\ steady' = steady \ {n}
  /\ UNCHANGED <<topic, conf, uuid, pc, req, seen, out, cap, cnt, cur, resp, pos, cliVars, logVars>>

(* is_container_running: by the pidfile or by a scan for the UUID, which   *)
(* puts the pidfile back.                                                  *)
is_container_running(n) == Alive(n)
Heals(n) == pidf' = IF Alive(n) THEN [pidf EXCEPT ![n] = "live"] ELSE pidf

-----------------------------------------------------------------------------
(* Accepting and checking.                                                 *)

Goto(p) == pc' = p
Reply(s) == Goto("sent") /\ resp' = s

Accept ==
  /\ pc = "accept" /\ Goto("header")
  /\ req' \in Requests
  /\ cap' = FirstCap
  /\ steady' = {n \in Name : run[n] => pidf[n] = "live"}
  /\ UNCHANGED <<sysVars, left, seen, out, cnt, cur, resp, pos, cliVars, logVars>>

(* A peer that keeps the connection open and says nothing is given up    *)
(* after the receive timeout; reads that meet the end fail at once.      *)
Header_RetriesForEver ==
  /\ pc = "header"
  /\ CASE req.fault = "refused" -> Reply("FORBIDDEN")
       [] req.fault = "badheader" -> Reply("BAD_REQUEST")
       [] req.fault = "silent" -> UNCHANGED <<pc, resp>>
       [] OTHER -> Goto("payload") /\ UNCHANGED resp
  /\ UNCHANGED <<sysVars, req, left, seen, out, cap, cnt, cur, steady, pos, cliVars, logVars>>

Header ==
  /\ pc = "header"
  /\ CASE req.fault = "refused" -> Reply("FORBIDDEN")
       [] req.fault \in {"badheader", "silent"} -> Reply("BAD_REQUEST")
       [] OTHER -> Goto("payload") /\ UNCHANGED resp
  /\ UNCHANGED <<sysVars, req, left, seen, out, cap, cnt, cur, steady, pos, cliVars, logVars>>

(* The payload is drained or read, and the handler of the opcode entered. *)
(* An unknown opcode is answered without reading its payload.            *)
Payload ==
  /\ pc = "payload"
  /\ CASE req.op = "unknown" -> Reply("UNSUPPORTED")
       [] req.op # "unknown" /\ req.fault = "badpayload" -> Reply("BAD_REQUEST")
       [] req.op = "ping" /\ req.fault = "none" -> Reply("OK")
       [] req.op \in {"info", "list", "listall"} /\ req.fault = "none" -> Goto("hint") /\ UNCHANGED resp
       [] req.op = "images" /\ req.fault = "none" -> Goto("confs") /\ UNCHANGED resp
       [] req.op \in Ops["ref"] /\ req.fault = "none" -> Goto("exact") /\ UNCHANGED resp
       [] req.op \in Ops["events"] /\ req.fault = "none" -> Goto("poll") /\ UNCHANGED resp
  /\ left' = IF pc' = "confs" THEN conf ELSE {n \in Name : pidf[n] # "none"}
  /\ UNCHANGED <<sysVars, req, seen, out, cap, cnt, cur, steady, pos, cliVars, logVars>>

-----------------------------------------------------------------------------
(* Lists.                                                                  *)

(* count_running_containers: a pidfile whose process is gone is removed.   *)
HintNext(n) ==
  /\ pc = "hint" /\ n \notin seen /\ pidf[n] # "none"
  /\ seen' = seen \union {n} /\ left' = left \ {n}
  /\ IF pidf[n] = "dead" THEN Goto("prune") /\ cur' = n /\ UNCHANGED cnt
                         ELSE cnt' = cnt + 1 /\ UNCHANGED <<pc, cur>>
  /\ UNCHANGED <<sysVars, req, out, cap, resp, steady, pos, cliVars, logVars>>

(* The file is removed in a later call, even if it is a new one by then. *)
Prune ==
  /\ pc = "prune" /\ Goto("hint")
  /\ pidf' = [pidf EXCEPT ![cur] = "none"]
  /\ cur' = None
  /\ UNCHANGED <<topic, conf, uuid, run, req, left, seen, out, cap, cnt, resp, steady, pos, cliVars, logVars>>

HintEnds ==
  /\ pc = "hint" /\ left = {}
  /\ seen' = {} /\ left' = {n \in Name : pidf[n] # "none"}
  /\ CASE req.op = "info" -> Reply("OK") /\ UNCHANGED cap
       [] req.op # "info" /\ cnt > MaxRec -> Reply("INTERNAL_ERROR") /\ UNCHANGED cap
       [] req.op # "info" /\ cnt <= MaxRec ->
            /\ Goto("pids") /\ UNCHANGED resp
            /\ cap' = IF cnt > FirstCap THEN cnt ELSE FirstCap
  /\ UNCHANGED <<sysVars, req, out, cnt, cur, steady, pos, cliVars, logVars>>

(* socketd_append_..._record: the array doubles when it is full, as long as  *)
(* the new capacity still fits in a payload.                               *)
Emit(r, next) ==
  IF Len(out) < cap \/ 2 * cap <= Room
    THEN /\ out' = Append(out, r) /\ Goto(next) /\ UNCHANGED resp
         /\ cap' = IF Len(out) < cap THEN cap ELSE 2 * cap
    ELSE Reply("INTERNAL_ERROR") /\ UNCHANGED <<out, cap>>

(* Pass 1: the running containers that have a pidfile and a configuration. *)
PidsNext(n) ==
  /\ pc = "pids" /\ n \notin seen /\ pidf[n] # "none"
  /\ seen' = seen \union {n} /\ left' = left \ {n}
  /\ IF n \in conf /\ is_container_running(n)
       THEN Emit([name |-> n, runs |-> TRUE], "pids") /\ Heals(n)
       ELSE UNCHANGED <<pc, out, cap, resp, pidf>>
  /\ UNCHANGED <<topic, conf, uuid, run, req, cnt, cur, steady, pos, cliVars, logVars>>

PidsEnds ==
  /\ pc = "pids" /\ left = {}
  /\ seen' = {} /\ left' = conf
  /\ IF req.op = "listall" THEN Goto("confs") /\ UNCHANGED resp ELSE Reply("OK")
  /\ UNCHANGED <<sysVars, req, out, cap, cnt, cur, steady, pos, cliVars, logVars>>

(* Pass 2: the stopped ones.  A list of images is one pass over all. *)
ConfsNext(n) ==
  /\ pc = "confs" /\ n \in left /\ left' = left \ {n}
  /\ seen' = seen \union {n}
  /\ IF req.op = "listall" /\ is_container_running(n)
       THEN UNCHANGED <<pc, out, cap, resp>>
       ELSE Emit([name |-> n, runs |-> is_container_running(n)], "confs")
  /\ Heals(n)
  /\ UNCHANGED <<topic, conf, uuid, run, req, cnt, cur, steady, pos, cliVars, logVars>>

ConfsEnds ==
  /\ pc = "confs" /\ left = {} /\ Reply("OK")
  /\ UNCHANGED <<sysVars, req, left, seen, out, cap, cnt, cur, steady, pos, cliVars, logVars>>

-----------------------------------------------------------------------------
(* socketd_load_config_by_ref: an exact name first, then the UUIDs that    *)
(* start with the reference.  A configuration may fail to load.            *)

Exact ==
  /\ pc = "exact"
  /\ \/ Reply("INTERNAL_ERROR") /\ UNCHANGED <<cur, left>>
     \/ /\ req.ref \in conf /\ cur' = req.ref
        /\ Goto("check") /\ UNCHANGED <<left, resp>>
     \/ /\ req.ref \notin conf /\ left' = conf /\ UNCHANGED cur
        /\ IF Range(req.ref) \subseteq Hex THEN Goto("scan") /\ UNCHANGED resp
                                          ELSE Reply("NOT_FOUND")
  /\ UNCHANGED <<sysVars, req, seen, out, cap, cnt, steady, pos, cliVars, logVars>>

FullLength(r) == \E u \in Uuid : Len(u) = Len(r)

ScanNext_FirstWins(n) ==
  /\ pc = "scan" /\ n \in left /\ left' = left \ {n}
  /\ IF IsPrefix(req.ref, uuid[n])
       THEN cur' = n /\ Goto("check") /\ UNCHANGED resp
       ELSE UNCHANGED <<pc, cur, resp>>
  /\ UNCHANGED <<sysVars, req, seen, out, cap, cnt, steady, pos, cliVars, logVars>>

ScanNext(n) ==
  /\ pc = "scan" /\ n \in left /\ left' = left \ {n}
  /\ \/ Reply("INTERNAL_ERROR") /\ UNCHANGED cur
     \/ ~IsPrefix(req.ref, uuid[n]) /\ UNCHANGED <<pc, cur, resp>>
     \/ IsPrefix(req.ref, uuid[n]) /\ cur # None /\ Reply("BAD_REQUEST") /\ cur' = None
     \/ /\ IsPrefix(req.ref, uuid[n]) /\ cur = None /\ cur' = n /\ UNCHANGED resp
        /\ Goto(IF FullLength(req.ref) THEN "check" ELSE "scan")
  /\ UNCHANGED <<sysVars, req, seen, out, cap, cnt, steady, pos, cliVars, logVars>>

ScanEnds ==
  /\ pc = "scan" /\ left = {}
  /\ IF cur = None THEN Reply("NOT_FOUND") ELSE Goto("check") /\ UNCHANGED resp
  /\ UNCHANGED <<sysVars, req, left, seen, out, cap, cnt, cur, steady, pos, cliVars, logVars>>

-----------------------------------------------------------------------------
(* Inspect, start, stop and restart.                                       *)

Check ==
  /\ pc = "check" /\ Heals(cur)
  /\ cnt' = IF is_container_running(cur) THEN 1 ELSE 0
  /\ \/ /\ req.op = "inspect" /\ Reply("OK")
        /\ out' = <<[name |-> cur, runs |-> is_container_running(cur)]>>
     \/ req.op = "start" /\ is_container_running(cur) /\ Reply("ALREADY_RUNNING") /\ UNCHANGED out
     \/ req.op = "stop" /\ ~is_container_running(cur) /\ Reply("ALREADY_STOPPED") /\ UNCHANGED out
     \/ /\ \/ req.op = "start" /\ ~is_container_running(cur)
           \/ req.op = "stop" /\ is_container_running(cur)
           \/ req.op = "restart"
        /\ Goto("act") /\ UNCHANGED <<resp, out>>
  /\ UNCHANGED <<topic, conf, uuid, run, req, left, seen, cap, cur, steady, pos, cliVars, logVars>>

(* start_rootfs, stop_rootfs and restart_rootfs, with the validation before *)
(* them, by what they return and leave.  A restart that fails may have      *)
(* stopped the container.                                                   *)
Act ==
  /\ pc = "act"
  /\ \/ Reply("INTERNAL_ERROR") /\ UNCHANGED <<run, pidf, left>>
     \/ /\ req.op = "restart" /\ cnt = 1 /\ run[cur]
        /\ Reply("INTERNAL_ERROR") /\ Becomes(cur, FALSE, "none")
     \/ /\ \/ req.op = "start" /\ ~run[cur] /\ Becomes(cur, TRUE, "live")
           \/ req.op = "stop" /\ run[cur] /\ Becomes(cur, FALSE, "none")
           \/ req.op = "restart" /\ (cnt = 0 => ~run[cur]) /\ Becomes(cur, TRUE, "live")
        /\ Goto("recheck") /\ UNCHANGED resp
  /\ UNCHANGED <<topic, conf, uuid, req, seen, out, cap, cnt, cur, steady, pos, cliVars, logVars>>

(* Someone else may have stopped or started it meanwhile. *)
Recheck_Trusts ==
  /\ pc = "recheck" /\ Heals(cur)
  /\ CASE req.op = "restart" /\ cnt = 1 -> Goto("record") /\ UNCHANGED resp
       [] req.op # "restart" \/ cnt = 0 -> Reply("OK")
  /\ UNCHANGED <<topic, conf, uuid, run, req, left, seen, out, cap, cnt, cur, steady, pos, cliVars, logVars>>

Recheck ==
  /\ pc = "recheck" /\ Heals(cur)
  /\ IF is_container_running(cur) # (req.op \in {"start", "restart"})
       THEN Reply("INTERNAL_ERROR")
       ELSE IF req.op = "restart" /\ cnt = 1 THEN Goto("record") /\ UNCHANGED resp ELSE Reply("OK")
  /\ UNCHANGED <<topic, conf, uuid, run, req, left, seen, out, cap, cnt, cur, steady, pos, cliVars, logVars>>

(* A restart of a running container is an event of its own, recorded       *)
(* before the answer.                                                      *)
Record ==
  /\ pc = "record" /\ Len(hist) < MaxRestart /\ Stamp(Me) /\ Goto("recording")
  /\ UNCHANGED <<sysVars, req, left, seen, out, cap, cnt, cur, resp, steady, pos, cliVars>>

Recorded ==
  /\ \/ pc = "recording" /\ wpc[Me] = "idle"
     \/ pc = "record" /\ Len(hist) >= MaxRestart
  /\ Reply("OK")
  /\ UNCHANGED <<sysVars, req, left, seen, out, cap, cnt, cur, steady, pos, cliVars, logVars>>

-----------------------------------------------------------------------------
(* Polling for events.  The client asks for everything since the newest    *)
(* event it has, or for everything.                                        *)

Since == IF req.op = "poll" THEN since ELSE 0

PollNext_Exclusive ==
  /\ pc = "poll" /\ pos < Len(file) /\ pos' = pos + 1
  /\ IF file[pos + 1].time <= Since /\ Since > 0 THEN UNCHANGED <<pc, out, cap, resp>>
                                     ELSE Emit(file[pos + 1], "poll")
  /\ UNCHANGED <<sysVars, req, left, seen, cnt, cur, steady, cliVars, logVars>>

PollNext ==
  /\ pc = "poll" /\ pos < Len(file) /\ pos' = pos + 1
  /\ IF file[pos + 1].time < Since THEN UNCHANGED <<pc, out, cap, resp>>
                                    ELSE Emit(file[pos + 1], "poll")
  /\ UNCHANGED <<sysVars, req, left, seen, cnt, cur, steady, cliVars, logVars>>

Newest(t, events) == IF events = {} THEN t ELSE CHOOSE m \in {e.time : e \in events} \union {t} :
                                          m >= t /\ \A e \in events : m >= e.time

PollEnds ==
  /\ pc = "poll" /\ pos >= Len(file) /\ Reply("OK")
  /\ got' = got \union {e.id : e \in Range(out)}
  /\ since' = Newest(since, Range(out))
  /\ UNCHANGED <<sysVars, req, left, seen, out, cap, cnt, cur, steady, pos, torn, logVars>>

(* The connection is closed; everything about it was local. *)
Close ==
  /\ pc = "sent" /\ Goto("accept")
  /\ req' = NoRequest /\ resp' = "none"
  /\ left' = {} /\ seen' = {} /\ out' = <<>> /\ cap' = 0 /\ cnt' = 0 /\ cur' = None
  /\ steady' = {} /\ pos' = 0
  /\ UNCHANGED <<sysVars, cliVars, logVars>>

-----------------------------------------------------------------------------
(* A compaction changes the file under a poll. *)
Tears ==
  torn' = (torn \/ (pc = "poll" /\ \E w \in Writer : wpc[w] \in {"trunc", "write"} /\ wpc'[w] # wpc[w]))

Writing ==
  /\ \E w \in Writer : WriterStep(w)
  /\ Tears /\ UNCHANGED <<sysVars, srvVars, got, since>>

OthersRecord ==
  /\ topic \in {"events", "log"}
  /\ Tick \/ \E w \in Writer \ {Me} : Stamp(w) \/ GivesUp(w)
  /\ Tears /\ UNCHANGED <<sysVars, srvVars, got, since>>

BridgeSteps ==
  \/ Accept \/ Header \/ Payload
  \/ \E n \in Name : HintNext(n) \/ PidsNext(n) \/ ConfsNext(n) \/ ScanNext(n)
  \/ Prune \/ HintEnds \/ PidsEnds \/ ConfsEnds \/ Exact \/ ScanEnds
  \/ Check \/ Act \/ Recheck \/ Record \/ Recorded \/ PollNext \/ PollEnds \/ Close

Next == BridgeSteps \/ Writing \/ OthersRecord \/ \E n \in Name : EnvMoves(n)

Spec == Init /\ [][Next]_vars

(* The bridge runs, and so do the processes that are writing an event. *)
FairSpec == Spec /\ WF_vars(BridgeSteps) /\ WF_vars(Writing)

-----------------------------------------------------------------------------
Answered(ops, status) == pc = "sent" /\ req.op \in ops /\ resp = status

(* A list is right about every container that did not change while it was  *)
(* made, although the containers are looked at one after the other, in two *)
(* passes over two directories (socketd_bridge.c:1036-1146, 1161-1216): it *)
(* is there once, in its state, and the counts of INFO are right when      *)
(* nothing changed.                                                        *)
Records(n) == {i \in DOMAIN out : out[i].name = n}
Once(n) == \E i \in DOMAIN out : Records(n) = {i} /\ out[i].runs = run[n]

ListFaithful ==
  /\ Answered({"list", "listall", "images"}, "OK") =>
       \A n \in steady :
         IF n \in conf /\ (run[n] \/ req.op # "list") THEN Once(n) ELSE Records(n) = {}
  /\ Answered({"info"}, "OK") /\ steady = Name => cnt = Cardinality({n \in Name : run[n]})

(* A list or poll fails only for want of room: more containers run than    *)
(* records fit in a payload, or the array has more than half the size of   *)
(* one, and cannot double (socketd_bridge.c:531-556, 1022-1026).           *)
FailsOnlyWhenFull ==
  Answered(Ops["list"] \union Ops["events"], "INTERNAL_ERROR") =>
    cnt > MaxRec \/ 2 * Len(out) > Room

(* A reference picks the container of that name, or the only one whose UUID *)
(* starts with it, in whatever order the directory is read; it is refused   *)
(* as ambiguous or unknown only when it is (socketd_bridge.c:287-366).      *)
(* UUIDs are taken to be distinct.                                          *)
Matching == {n \in conf : IsPrefix(req.ref, uuid[n])}
Distinct == \A m, n \in conf : uuid[m] = uuid[n] => m = n
RefRight ==
  Distinct /\ req.op \in Ops["ref"] /\ req.fault = "none" =>
    /\ pc = "check" => IF req.ref \in conf THEN cur = req.ref ELSE Matching = {cur}
    /\ Answered(Ops["ref"], "NOT_FOUND") => req.ref \notin conf /\ Matching = {}
    /\ Answered(Ops["ref"], "BAD_REQUEST") => req.ref \notin conf /\ Cardinality(Matching) > 1

(* An answer to start or stop is true when it is given, whatever others did *)
(* to the container since it was asked for (socketd_bridge.c:790-826).      *)
AnswerTrue ==
  [][pc # "sent" /\ pc' = "sent" =>
       /\ req.op = "start" /\ resp' \in {"OK", "ALREADY_RUNNING"} => run[cur]
       /\ req.op = "stop" /\ resp' \in {"OK", "ALREADY_STOPPED"} => ~run[cur]]_vars

(* A client that polls with the time of its newest event misses nothing     *)
(* that is in the file, even events of the same second                      *)
(* (socketd_bridge.c:1326-1329), as long as writers take turns and no       *)
(* compaction ever ran into one of its polls.                               *)
NothingMissed ==
  [][pc = "poll" /\ pc' = "sent" /\ resp' = "OK" /\ order = "turns" /\ ~torn =>
       {e.id : e \in Range(file)} \subseteq got']_vars

(* No client can hold the bridge: every connection ends                     *)
(* (socketd_bridge.c:25-38, 1386-1399).                                     *)
EveryRequestEnds == (pc = "header") ~> (pc = "accept")

(* What the bridge reports is right within its bounds: lists and counts,   *)
(* references, the reasons of a failure, and the size of the event file    *)
(* that bounds its memory.                                                 *)
ListExact == TypeOK /\ ListFaithful /\ FailsOnlyWhenFull /\ RefRight /\ SizeBounded
=============================================================================
