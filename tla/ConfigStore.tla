----------------------------- MODULE ConfigStore ----------------------------
(***************************************************************************)
(* The configuration of containers: config.c with its callers in main.c,   *)
(* container.c, boot.c, monitor.c and pid.c, and the NAT addresses of      *)
(* net/network.c that are kept in it.  A configuration lives in four       *)
(* places: the workspace file that the user and the application edit, the  *)
(* struct ds_config of a command, the copy its monitor inherits, and the   *)
(* snapshot that init writes inside the container.  Commands read and      *)
(* rewrite the file without any lock.                                      *)
(*                                                                         *)
(* A file is a record of its keys.  Of the keys one of each kind is kept:  *)
(* net_mode stands for those that are always written, memory_limit for     *)
(* those written when set, static_nat_ip and port_forwards for those       *)
(* written in one network mode, bind_mounts for the lists, app for the     *)
(* lines the program does not know.                                        *)
(***************************************************************************)
EXTENDS Naturals, Sequences, FiniteSets

CONSTANTS Cont,       \* containers
          Proc,       \* command processes
          Size,       \* number of addresses in the NAT subnet
          Hash,       \* the address a container's name hashes to
          Bad,        \* an address that does not validate
          Forward,    \* port forwards: [proto, h, c], ranges as <<first, last>>
          Bind,       \* bind mounts
          MaxForward, \* DS_MAX_PORT_FORWARDS
          Texts,      \* what a file holds at first, and what an edit writes
          Arg,        \* flags: [reset, root, mode, ports, ip]
          Budgets     \* bounds: how many commands, edits, reboots and failures

Addr == 1..Size
Plain == [reset |-> FALSE, root |-> FALSE, mode |-> "keep", ports |-> <<>>, ip |-> 0]

ASSUME ConfigAssumption ==
  /\ Cont # {} /\ Size \in Nat \ {0} /\ Hash \in [Cont -> Addr] /\ Bad \notin 0..Size
  /\ MaxForward \in Nat /\ Plain \in Arg
  /\ Texts \subseteq [root : BOOLEAN, mode : {"host", "nat"}, limit : Nat, ports : Seq(Forward),
                      ip : Addr \cup {0, Bad}, binds : SUBSET Bind, app : {0}]
  /\ Arg \subseteq [reset : BOOLEAN, root : BOOLEAN, mode : {"keep", "host", "nat"},
                    ports : Seq(Forward), ip : Addr \cup {0}]
  /\ Budgets \subseteq [cmd : Nat, edit : Nat, reboot : Nat, lost : Nat]

(* A port, or a range of them, is written with its ends in order. *)
ASSUME PortAssumption ==
  \A f \in Forward : f.h \in Nat \X Nat /\ f.c \in Nat \X Nat /\ f.h[1] <= f.h[2] /\ f.c[1] <= f.c[2]

VARIABLES
  file,     \* the workspace file of each container
  edit,     \* the application's cp: "none", "open", or "orphan" of a replaced file
  ps,       \* the commands
  box,      \* the containers: see Down
  count     \* how many of these events may still happen

vars == <<file, edit, ps, box, count>>

-----------------------------------------------------------------------------
(***************************************************************************)
(* Port forwards.                                                          *)
(***************************************************************************)
Overlap(r, s) == r[1] <= s[2] /\ s[1] <= r[2]

Clash_HostOnly(f, g) == f.proto = g.proto /\ Overlap(f.h, g.h)

(* An exact duplicate overlaps as well; both are skipped. *)
Clash(f, g) == f.proto = g.proto /\ (Overlap(f.h, g.h) \/ Overlap(f.c, g.c))

(* Both sides span the same number of ports. *)
Wellformed(f) == f.h[2] - f.h[1] = f.c[2] - f.c[1]

AddForwards(have, more) ==
  LET upto[i \in 0..Len(more)] ==
        IF i = 0 THEN have
        ELSE IF /\ Len(upto[i - 1]) < MaxForward /\ Wellformed(more[i])
                /\ \A k \in 1..Len(upto[i - 1]) : ~Clash(upto[i - 1][k], more[i])
             THEN Append(upto[i - 1], more[i])
             ELSE upto[i - 1]
  IN upto[Len(more)]

-----------------------------------------------------------------------------
(***************************************************************************)
(* Loading and saving.                                                     *)
(***************************************************************************)
(* main's configuration before anything is loaded; a zeroed one is in host *)
(* mode.                                                                   *)
Default == [root |-> FALSE, mode |-> "nat", limit |-> 0, ports |-> <<>>, ip |-> 0,
            binds |-> {}, app |-> 0]
Zeroed == [Default EXCEPT !.mode = "host"]

(* A truncated file, and none at all. *)
Empty == [Default EXCEPT !.mode = "absent"]
NoFile == [Default EXCEPT !.mode = "no file"]

(* ds_config_load: the keys of the file are laid over the configuration;   *)
(* lists grow; unknown lines are replaced.                                 *)
ds_config_load(text, cfg) ==
  IF text = NoFile THEN cfg
  ELSE [root  |-> cfg.root \/ text.root,
        mode  |-> IF text.mode = "absent" THEN cfg.mode ELSE text.mode,
        limit |-> IF text.limit > 0 THEN text.limit ELSE cfg.limit,
        ports |-> AddForwards(cfg.ports, text.ports),
        ip    |-> IF text.ip \in Addr THEN text.ip ELSE cfg.ip,
        binds |-> cfg.binds \cup text.binds,
        app   |-> text.app]

(* ds_config_serialize_known and the unknown lines after it. *)
Serialize(cfg) ==
  [cfg EXCEPT !.ports = IF cfg.mode = "nat" THEN @ ELSE <<>>,
              !.ip = IF cfg.mode = "nat" THEN @ ELSE 0]

Known(text) == [text EXCEPT !.app = 0]

(* What a full disk leaves of a file: its first keys, in the order in which*)
(* they are written, and none of the unknown lines.                        *)
FirstKeys(text, k) ==
  [root  |-> k >= 1 /\ text.root,
   limit |-> IF k >= 2 THEN text.limit ELSE 0,
   mode  |-> IF k >= 3 THEN text.mode ELSE "absent",
   ports |-> IF k >= 4 THEN text.ports ELSE <<>>,
   ip    |-> IF k >= 5 THEN text.ip ELSE 0,
   binds |-> IF k >= 6 THEN text.binds ELSE {},
   app   |-> 0]

ds_config_reset_defaults_Keeps(cfg) == cfg

ds_config_reset_defaults_AllGone(cfg) == [Default EXCEPT !.root = cfg.root]

(* ds_config_reset_defaults keeps the identity and the unknown lines. *)
ds_config_reset_defaults(cfg) == [Default EXCEPT !.root = cfg.root, !.app = cfg.app]

-----------------------------------------------------------------------------
(***************************************************************************)
(* The state.                                                              *)
(***************************************************************************)
(* A container: whether it is up, how many times it booted, the monitor's  *)
(* configuration, the snapshot, and three notes for the properties: whether*)
(* it got what the booting command was asked for, whether its file was     *)
(* changed by others since that command saved it, and whether its address  *)
(* was ever open to others since that command looked for one.              *)
Down == [up |-> "down", n |-> 0, cfg |-> Default, snap |-> NoFile, fresh |-> TRUE,
         touched |-> TRUE, excused |-> TRUE]

Idle == [pc |-> "idle", cmd |-> "stop", c |-> CHOOSE c \in Cont : TRUE, args |-> Plain,
         cfg |-> Default, cand |-> 0, tries |-> 0, left |-> {}, ret |-> "idle", boot |-> 0, again |-> FALSE,
         asked |-> NoFile, over |-> FALSE]

Init ==
  /\ file \in [Cont -> Texts \cup {NoFile}] /\ edit = [c \in Cont |-> "none"]
  /\ ps = [p \in Proc |-> Idle] /\ box = [c \in Cont |-> Down]
  /\ count \in Budgets

Count(k) == count[k] > 0 /\ count' = [count EXCEPT ![k] = @ - 1]

(* is_container_running sees the marker directory; find_container_by_name  *)
(* needs the name that is written last.                                    *)
is_container_running(c) == box[c].up \in {"marked", "saved", "up"}
find_container_by_name(c) == box[c].up = "up"

(* A change of c's file that the commands in progress, but for those in S, *)
(* do not notice.                                                          *)
Overtaken(c, S) ==
  [q \in Proc |-> IF q \notin S /\ ps[q].pc # "idle" /\ ps[q].c = c
                  THEN [ps[q] EXCEPT !.over = TRUE] ELSE ps[q]]

Touched(c) == box' = [box EXCEPT ![c].touched = TRUE, ![c].excused = TRUE]

Become(p, r) == ps' = [ps EXCEPT ![p] = r]
Exit(p) == Become(p, Idle)

-----------------------------------------------------------------------------
(***************************************************************************)
(* A command: discovery, load, overrides.  Two commands that start the     *)
(* same container are the subject of Lifecycle and do not meet here.       *)
(***************************************************************************)
Begin(p) ==
  /\ ps[p].pc = "idle" /\ Count("cmd")
  /\ \E c \in Cont, cmd \in {"start", "stop", "restart", "scan"}, a \in Arg :
       /\ cmd \in {"stop", "scan"} => a = Plain
       /\ cmd \in {"start", "restart"} =>
            /\ box[c].up # "boot"
            /\ \A q \in Proc : ps[q].pc # "idle" /\ ps[q].c = c =>
                                 ps[q].cmd \notin {"start", "restart"}
       /\ Become(p, [Idle EXCEPT !.pc = IF cmd = "scan" THEN "sync" ELSE "load",
                                 !.cmd = cmd, !.c = c, !.args = a])
  /\ UNCHANGED <<file, edit, box>>

(* A bad --port, or one too many, ends the command. *)
BadFlags(r) ==
  \E i \in 1..Len(r.args.ports) :
    \/ ~Wellformed(r.args.ports[i])
    \/ Len(AddForwards(r.cfg.ports, SubSeq(r.args.ports, 1, i - 1))) >= MaxForward

WithFlags(args, cfg) ==
  [cfg EXCEPT !.root = @ \/ args.root, !.mode = IF args.mode = "keep" THEN @ ELSE args.mode,
              !.ports = AddForwards(@, args.ports), !.ip = IF args.ip = 0 THEN @ ELSE args.ip]

enforce_nat_safety(cfg) == [cfg EXCEPT !.ports = IF cfg.mode = "nat" THEN @ ELSE <<>>]

(* The flags, in a restart before the stop and again after it; then the    *)
(* command.                                                                *)
Flagged(r) ==
  LET cfg == WithFlags(r.args, r.cfg) IN
  IF BadFlags(r) THEN Idle
  ELSE [r EXCEPT !.pc = IF r.cmd = "start" \/ r.again THEN "begin" ELSE "stop",
                 !.cfg = IF r.cmd = "stop" \/ r.again THEN cfg ELSE enforce_nat_safety(cfg)]

(* ds_apply_cli_overrides: --reset wipes the configuration and saves it    *)
(* before the other flags.                                                 *)
ds_apply_cli_overrides(r) ==
  IF r.args.reset
  THEN [r EXCEPT !.pc = "save", !.ret = "flags", !.cfg = ds_config_reset_defaults(r.cfg)]
  ELSE Flagged(r)

Loaded(r, text, cfg) ==
  ds_apply_cli_overrides([r EXCEPT !.cfg = ds_config_load(text, cfg), !.asked = text])

(* ds_config_load_by_name: the snapshot of a running container, else the   *)
(* workspace file.  Without either only a start goes on; the recovery scan *)
(* that a stop or restart tries first is Sync.                             *)
Load(p) ==
  LET r == ps[p]
      live == find_container_by_name(r.c)
      text == IF live /\ box[r.c].snap # NoFile THEN box[r.c].snap ELSE file[r.c]
      stale == live /\ (file[r.c] = NoFile \/ file[r.c].app # text.app) IN
  /\ r.pc = "load"
  /\ Become(p, IF text = NoFile /\ r.cmd # "start" THEN Idle
               ELSE Loaded([r EXCEPT !.boot = IF live THEN box[r.c].n ELSE 0, !.over = stale],
                           text, Default))
  /\ UNCHANGED <<file, edit, box, count>>

-----------------------------------------------------------------------------
(***************************************************************************)
(* start_rootfs as far as the configuration goes.                          *)
(***************************************************************************)
Others(c) == Cont \ {c}

(* A start needs a root and a free name; a restart comes with the lock.    *)
(* Host mode needs no address, NAT first tries the one it has.             *)
StartRootfs(p) ==
  LET r == ps[p] IN
  /\ r.pc = "begin"
  /\ IF \/ r.cmd = "start" /\ ~r.cfg.root
        \/ ~r.again /\ is_container_running(r.c)
     THEN Exit(p) /\ UNCHANGED box
     ELSE /\ Become(p, IF r.cfg.mode = "nat"
                       THEN [r EXCEPT !.pc = "scan", !.left = Others(r.c),
                                      !.cand = IF r.cfg.ip = 0 THEN Hash[r.c] ELSE r.cfg.ip,
                                      !.tries = IF r.cfg.ip = 0 THEN 1 ELSE 0]
                       ELSE [r EXCEPT !.pc = "save", !.ret = "boot"])
          /\ box' = [box EXCEPT ![r.c].excused = FALSE]
  /\ UNCHANGED <<file, edit, count>>

Settle(r, a) == [r EXCEPT !.pc = "save", !.ret = "boot", !.cfg.ip = a, !.cand = 0, !.tries = 0, !.left = {}]

NextAddr(a) == (a % Size) + 1

(* ds_net_check_ip_collision reads the files of the other containers one   *)
(* after the other, whatever their mode; ds_net_auto_assign_ip walks on    *)
(* from the hash, and comes back to it when every address is taken.        *)
ScanFile(p) ==
  LET r == ps[p] IN
  /\ r.pc = "scan"
  /\ \E d \in r.left :
       IF ds_config_load(file[d], Zeroed).ip # r.cand
       THEN Become(p, [r EXCEPT !.left = @ \ {d}]) /\ UNCHANGED box
       ELSE IF r.tries = Size
       THEN Become(p, Settle(r, NextAddr(r.cand))) /\ box' = [box EXCEPT ![r.c].excused = TRUE]
       ELSE /\ Become(p, [r EXCEPT !.left = Others(r.c), !.tries = @ + 1,
                                   !.cand = IF r.tries = 0 THEN Hash[r.c] ELSE NextAddr(@)])
            /\ UNCHANGED box
  /\ UNCHANGED <<file, edit, count>>

ScanDone_KeepsOwn(p) ==
  /\ ps[p].pc = "scan"
  /\ Become(p, Settle(ps[p], ps[p].cand))
  /\ UNCHANGED <<file, edit, box, count>>

ScanDone(p) ==
  /\ ps[p].pc = "scan" /\ ps[p].left = {}
  /\ Become(p, Settle(ps[p], ps[p].cand))
  /\ UNCHANGED <<file, edit, box, count>>

(* Somebody else has looked for an address and not yet saved it. *)
Looking(p, c) == \E q \in Proc \ {p} : ps[q].pc \in {"scan", "save", "rename"} /\ ps[q].c # c

(* The notes after the save that precedes a boot, or of a recovery. *)
Saved(p, r) ==
  box' = [box EXCEPT ![r.c].touched = r.ret = "idle" /\ ~(box[r.c].up = "up" /\ box[r.c].n = r.boot),
                     ![r.c].excused = @ \/ r.ret = "idle" \/ Looking(p, r.c)]

(* Where a save returns to. *)
Return(r) ==
  CASE r.ret = "flags" -> Flagged(r)
    [] r.ret = "boot"  -> [r EXCEPT !.pc = "boot"]
    [] r.ret = "idle"  -> Idle

(* ds_config_save: nothing is written when the file already says it.       *)
Save(p) ==
  LET r == ps[p]
      disk == Serialize(ds_config_load(file[r.c], Zeroed)) IN
  /\ r.pc = "save"
  /\ IF file[r.c] # NoFile /\ Known(disk) = Known(Serialize(r.cfg))
     THEN /\ Become(p, Return(r))
          /\ IF r.ret = "boot" THEN Saved(p, r) ELSE UNCHANGED box
     ELSE Become(p, [r EXCEPT !.pc = "rename"]) /\ UNCHANGED box
  /\ UNCHANGED <<file, edit, count>>

(* The temporary file replaces the old one; an editor that has the old one *)
(* open goes on writing into a file without a name.                        *)
Rename(p) ==
  LET r == ps[p] IN
  /\ r.pc = "rename"
  /\ file' = [file EXCEPT ![r.c] = Serialize(r.cfg)]
  /\ edit' = [edit EXCEPT ![r.c] = IF @ = "open" THEN "orphan" ELSE @]
  /\ ps' = [Overtaken(r.c, {p}) EXCEPT ![p] = Return(r)]
  /\ IF r.ret = "flags" THEN Touched(r.c) ELSE Saved(p, r)
  /\ UNCHANGED count

(* No room: nobody looks at the results of fprintf and fclose, so what did *)
(* get written replaces the file, and the command goes on as if all had.   *)
NoRoom(p) ==
  LET r == ps[p]
      f == Return(r) IN
  /\ r.pc = "rename" /\ Count("lost")
  /\ \E k \in 0..6 : file' = [file EXCEPT ![r.c] = FirstKeys(Serialize(r.cfg), k)]
  /\ edit' = [edit EXCEPT ![r.c] = IF @ = "open" THEN "orphan" ELSE @]
  /\ ps' = [Overtaken(r.c, {p}) EXCEPT ![p] = [f EXCEPT !.over = (f.pc # "idle")]]
  /\ Touched(r.c)

(* No temporary file, or it cannot be renamed: a start only warns, and one *)
(* that loaded the snapshot (cfg->config_file set) gives up.               *)
SaveFails(p) ==
  LET r == ps[p] IN
  /\ r.pc = "rename" /\ Count("lost")
  /\ Become(p, IF r.ret = "boot" /\ r.boot # 0 THEN Idle ELSE Return(r))
  /\ Touched(r.c) /\ UNCHANGED <<file, edit>>

(* Killed between the temporary file and the rename. *)
Killed(p) ==
  /\ ps[p].pc = "rename" /\ Count("lost") /\ Exit(p)
  /\ UNCHANGED <<file, edit, box>>

(* For the properties: what a start of the file that was loaded would have *)
(* come to.                                                                *)
Fresh(text, args) ==
  LET cfg == ds_config_load(text, Default) IN
  Serialize(WithFlags(args, IF args.reset THEN [Default EXCEPT !.root = cfg.root] ELSE cfg))

AsFresh(r) ==
  [Known(Serialize(r.cfg)) EXCEPT !.ip = 0, !.root = TRUE]
    = [Known(Fresh(r.asked, r.args)) EXCEPT !.ip = 0, !.root = TRUE]

(* The fork: the monitor inherits the configuration. *)
Boot(p) ==
  LET r == ps[p] IN
  /\ r.pc = "boot" /\ Exit(p)
  /\ box' = [box EXCEPT ![r.c] = [@ EXCEPT !.up = "boot", !.n = box[r.c].n + 1, !.cfg = r.cfg,
                                           !.snap = NoFile, !.fresh = AsFresh(r)]]
  /\ UNCHANGED <<file, edit, count>>

-----------------------------------------------------------------------------
(***************************************************************************)
(* The container.                                                          *)
(***************************************************************************)
InitStep(c, from, b) ==
  /\ box[c].up = from /\ box' = [box EXCEPT ![c] = b] /\ UNCHANGED <<file, edit, ps, count>>

(* internal_boot: the marker directory, the snapshot, the name. *)
Mark(c) == InitStep(c, "boot", [box[c] EXCEPT !.up = "marked"])
Snapshot(c) == InitStep(c, "marked", [box[c] EXCEPT !.up = "saved", !.snap = Serialize(box[c].cfg)])
Name(c) == InitStep(c, "saved", [box[c] EXCEPT !.up = "up"])

(* ds_monitor_run after an inner reboot: bind mounts are dropped, the rest *)
(* of the old configuration stays below what the workspace file says.      *)
Reboot(c) ==
  /\ box[c].up = "up" /\ Count("reboot")
  /\ \A p \in Proc : ps[p].pc # "idle" /\ ps[p].c = c => ps[p].cmd # "start"
  /\ box' = [box EXCEPT ![c].up = "boot", ![c].n = @ + 1, ![c].snap = NoFile,
                        ![c].cfg = ds_config_load(file[c], [@ EXCEPT !.binds = {}])]
  /\ UNCHANGED <<file, edit, ps>>

(* stop_rootfs; a restart goes on with what a fresh start would load. *)
Stop(p) ==
  LET r == ps[p] IN
  /\ r.pc = "stop"
  /\ IF is_container_running(r.c)
     THEN /\ box' = [box EXCEPT ![r.c] = [Down EXCEPT !.n = box[r.c].n]]
          /\ IF r.cmd = "restart" THEN Become(p, [r EXCEPT !.pc = "reload"]) ELSE Exit(p)
     ELSE Exit(p) /\ UNCHANGED box
  /\ UNCHANGED <<file, edit, count>>

Reload(p) ==
  LET r == ps[p] IN
  /\ r.pc = "reload"
  /\ Become(p, Loaded([r EXCEPT !.again = TRUE, !.over = FALSE], file[r.c], ds_config_reset_defaults(r.cfg)))
  /\ UNCHANGED <<file, edit, box, count>>

(* ds_metadata_sync: a lost file is written again from the snapshot. *)
Sync(p) ==
  LET r == ps[p] IN
  /\ r.pc = "sync"
  /\ IF find_container_by_name(r.c) /\ file[r.c] = NoFile
     THEN Become(p, [r EXCEPT !.pc = "rename", !.ret = "idle", !.boot = box[r.c].n,
                              !.cfg = ds_config_load(box[r.c].snap, Zeroed)])
     ELSE Exit(p)
  /\ UNCHANGED <<file, edit, box, count>>

-----------------------------------------------------------------------------
(***************************************************************************)
(* The application, and whoever else changes files.                        *)
(***************************************************************************)
(* updateContainerConfig copies over the file in place: cp truncates it,   *)
(* then writes.                                                            *)
EditOpens(c) ==
  /\ edit[c] = "none" /\ Count("edit")
  /\ edit' = [edit EXCEPT ![c] = "open"] /\ file' = [file EXCEPT ![c] = Empty]
  /\ ps' = Overtaken(c, {}) /\ Touched(c)

EditWrites(c) ==
  /\ edit[c] # "none" /\ edit' = [edit EXCEPT ![c] = "none"]
  /\ IF edit[c] = "open"
     THEN /\ \E t \in Texts : file' = [file EXCEPT ![c] = [t EXCEPT !.app = count.edit + 1]]
          /\ ps' = Overtaken(c, {}) /\ Touched(c)
     ELSE UNCHANGED <<file, ps, box>>
  /\ UNCHANGED count

FileLost(c) ==
  /\ file[c] # NoFile /\ edit[c] = "none" /\ Count("lost")
  /\ file' = [file EXCEPT ![c] = NoFile] /\ ps' = Overtaken(c, {}) /\ Touched(c)
  /\ UNCHANGED edit

-----------------------------------------------------------------------------
Next ==
  \/ \E p \in Proc :
       \/ Begin(p) \/ Load(p) \/ StartRootfs(p) \/ ScanFile(p)
       \/ ScanDone(p) \/ Save(p) \/ Rename(p) \/ NoRoom(p) \/ SaveFails(p) \/ Killed(p)
       \/ Boot(p) \/ Stop(p) \/ Reload(p) \/ Sync(p)
  \/ \E c \in Cont :
       \/ Mark(c) \/ Snapshot(c) \/ Name(c) \/ Reboot(c)
       \/ EditOpens(c) \/ EditWrites(c) \/ FileLost(c)

Spec == Init /\ [][Next]_vars

-----------------------------------------------------------------------------
(***************************************************************************)
(* Properties.                                                             *)
(***************************************************************************)
Config == [root : BOOLEAN, mode : {"host", "nat"}, limit : {t.limit : t \in Texts} \cup {0},
           ports : Seq(Forward), ip : 0..Size, binds : SUBSET Bind, app : Nat]
Text == [root : BOOLEAN, mode : {"host", "nat", "absent"}, limit : {t.limit : t \in Texts} \cup {0},
         ports : Seq(Forward), ip : (0..Size) \cup {Bad}, binds : SUBSET Bind, app : Nat]

(* Every variable stays within its type. *)
TypeOK ==
  /\ \A c \in Cont : file[c] = NoFile \/ file[c] \in Text
  /\ edit \in [Cont -> {"none", "open", "orphan"}]
  /\ \A p \in Proc : ps[p].cfg \in Config /\ ps[p].left \subseteq Cont
  /\ \A c \in Cont : box[c].cfg \in Config /\ (box[c].snap = NoFile \/ box[c].snap \in Text)

Ports(r) == r[1]..r[2]

(* No port of the host, and none of a container, is forwarded twice, in any*)
(* configuration a command or a monitor holds, whichever files and flags it*)
(* was put together from, and the table never overflows: the overlap tests *)
(* of ds_config_load and of --port.                                        *)
PortsDisjoint ==
  \A cfg \in {ps[p].cfg : p \in Proc} \cup {box[c].cfg : c \in Cont} :
    /\ Len(cfg.ports) <= MaxForward
    /\ \A i, j \in 1..Len(cfg.ports) :
         i # j /\ cfg.ports[i].proto = cfg.ports[j].proto =>
           /\ Ports(cfg.ports[i].h) \cap Ports(cfg.ports[j].h) = {}
           /\ Ports(cfg.ports[i].c) \cap Ports(cfg.ports[j].c) = {}

(* A stop works on the configuration the container was booted with, and not*)
(* on edits made since: the mode decides whether the network is cleaned up,*)
(* the address and the forwards which rules are removed.  Flags on a       *)
(* restart are laid over it before the stop, so this is about commands     *)
(* without any.                                                            *)
StopSeesBoot ==
  \A p \in Proc :
    LET r == ps[p] IN
    r.pc = "stop" /\ box[r.c].up = "up" /\ r.boot = box[r.c].n /\ r.args = Plain =>
      Known(Serialize(r.cfg)) = Known(Serialize(box[r.c].cfg))

(* Disk matches the running container: unless somebody changed the file    *)
(* since, or saving failed, the next start would load exactly what runs.   *)
(* A file without net_mode is the exception: ds_config_save compares with a*)
(* zeroed configuration, which is in host mode, and skips the write, while *)
(* main's default is NAT.                                                  *)
BootedIsSaved ==
  \A c \in Cont :
    box[c].snap # NoFile /\ ~box[c].touched =>
      /\ file[c] # NoFile
      /\ file[c].mode # "absent" =>
         Known(Serialize(ds_config_load(file[c], Default))) = Known(box[c].snap)

(* What a restart boots is what a fresh start with the same flags would    *)
(* boot from the file as it was after the stop: nothing of the stopped     *)
(* container's configuration shines through.  The address is settled later.*)
RestartIsStart == \A c \in Cont : box[c].fresh

(* Two running containers in NAT mode never have the same address, unless  *)
(* two starts looked for one at the same time, or a file was edited, lost, *)
(* not or not wholly written, or recovered, perhaps from the snapshot of an*)
(* earlier boot: ds_net_resolve_static_ip checks against files only.       *)
AddressUnique ==
  \A c, d \in Cont :
    /\ c # d /\ {box[c].up, box[d].up} \cap {"down"} = {}
    /\ box[c].cfg.mode = "nat" /\ box[d].cfg.mode = "nat"
    /\ box[c].cfg.ip = box[d].cfg.ip
    => box[c].excused \/ box[d].excused

(* The lines of the application survive every save by a command that loaded*)
(* them, whatever the command does to the rest of the file: the save fails,*)
(* is killed or carries them over.  Only on a full disk they are lost.     *)
AppKept ==
  [][\A p \in Proc :
       LET c == ps[p].c IN
       ps[p].pc = "rename" /\ ps'[p].pc # "rename" /\ ~ps[p].over /\ file[c] # NoFile =>
         file'[c].app = file[c].app \/ NoRoom(p)]_vars

(* Whatever files and flags are combined, whichever of the file's writers  *)
(* is interrupted, and however little of a file a full disk leaves: the    *)
(* types, disjoint forwards, and stops that work on what was booted.       *)
ConfigInv == TypeOK /\ PortsDisjoint /\ StopSeesBoot

(* What runs is what was asked for, and the file says so: a restart carries*)
(* nothing over from the container it stopped, and a start saves what it   *)
(* boots.                                                                  *)
BootsWhatIsAsked == BootedIsSaved /\ RestartIsStart
=============================================================================
