-------------------------- MODULE ConfigStoreProofs --------------------------
(***************************************************************************)
(* Theorems about the configuration files, for any number of containers,   *)
(* commands and addresses, and any files and flags.                        *)
(***************************************************************************)
EXTENDS ConfigStore, WellFoundedInduction, TLAPS

-----------------------------------------------------------------------------
(***************************************************************************)
(* The shape of the records.  Lists of forwards may be anything.           *)
(***************************************************************************)
Shaped(t) == t \in [root : {t.root}, mode : {t.mode}, limit : {t.limit}, ports : {t.ports},
                    ip : {t.ip}, binds : {t.binds}, app : {t.app}]

IsConfig(cfg) == Shaped(cfg) /\ cfg.mode \in {"host", "nat"} /\ cfg.ip \in 0..Size

IsText(t) == Shaped(t) /\ t.mode \in {"host", "nat", "absent"}

Pcs == {"idle", "load", "begin", "scan", "save", "rename", "boot", "stop", "reload", "sync"}

IsCommand(r) ==
  /\ r \in [pc : Pcs, cmd : {"start", "stop", "restart", "scan"}, c : Cont, args : Arg,
            cfg : {r.cfg}, cand : 0..Size, tries : Nat, left : SUBSET Cont,
            ret : {"flags", "boot", "idle"}, boot : Nat, again : BOOLEAN, asked : {r.asked},
            over : BOOLEAN]
  /\ IsConfig(r.cfg)

IsBox(b) ==
  /\ b \in [up : {"down", "boot", "marked", "saved", "up"}, n : Nat, cfg : {b.cfg}, snap : {b.snap},
            fresh : {b.fresh}, touched : BOOLEAN, excused : BOOLEAN]
  /\ IsConfig(b.cfg) /\ (b.snap = NoFile \/ IsText(b.snap))

Shapes ==
  /\ file = [c \in Cont |-> file[c]] /\ \A c \in Cont : file[c] = NoFile \/ IsText(file[c])
  /\ ps = [p \in Proc |-> ps[p]] /\ \A p \in Proc : IsCommand(ps[p])
  /\ box = [c \in Cont |-> box[c]] /\ \A c \in Cont : IsBox(box[c])
  /\ count \in [cmd : Nat, edit : Nat, reboot : Nat, lost : Nat]

-----------------------------------------------------------------------------
(***************************************************************************)
(* The inductive invariant.                                                *)
(***************************************************************************)
Starts(r) == r.pc # "idle" /\ r.cmd \in {"start", "restart"}
Booting(r) == r.pc \in {"scan", "boot"} \/ (r.pc \in {"save", "rename"} /\ r.ret = "boot")

(* What a command may be about, and when its container is down. *)
Placed(r) ==
  /\ r.pc = "begin" => Starts(r) /\ (r.cmd = "start" \/ r.again)
  /\ Booting(r) \/ r.again \/ r.pc = "reload" => Starts(r) /\ box[r.c].up = "down"
  /\ Starts(r) /\ r.cmd = "start" => box[r.c].up # "boot"

Control ==
  /\ \A p \in Proc : Placed(ps[p])
  /\ \A p, q \in Proc : p # q /\ Starts(ps[p]) /\ Starts(ps[q]) => ps[p].c # ps[q].c

(* A command that has loaded the file and was not overtaken has its        *)
(* unknown lines.                                                          *)
HasLines(r) ==
  r.pc \notin {"idle", "load", "sync", "reload"} /\ ~r.over /\ file[r.c] # NoFile =>
    r.cfg.app = file[r.c].app

Lines == \A p \in Proc : HasLines(ps[p])

(* What is booted or about to be booted is what the file says, unless      *)
(* excused.                                                                *)
Says(t, cfg) ==
  /\ t # NoFile
  /\ ds_config_load(t, Zeroed).mode = cfg.mode
  /\ cfg.mode = "nat" => ds_config_load(t, Zeroed).ip = cfg.ip

Written ==
  /\ \A c \in Cont : box[c].up # "down" /\ ~box[c].excused => Says(file[c], box[c].cfg)
  /\ \A p \in Proc : ps[p].pc = "boot" /\ ~box[ps[p].c].excused => Says(file[ps[p].c], ps[p].cfg)

(* A container holds an address when it runs with it or is about to. *)
Holds(c, a) ==
  /\ ~box[c].excused
  /\ \/ box[c].up # "down" /\ box[c].cfg.mode = "nat" /\ box[c].cfg.ip = a
     \/ \E p \in Proc : ps[p].pc = "boot" /\ ps[p].c = c /\ ps[p].cfg.mode = "nat" /\ ps[p].cfg.ip = a

(* A command has found nobody, of the containers it has looked at, that    *)
(* holds its address.                                                      *)
Clear(r) ==
  /\ r.pc = "scan" => \A d \in Cont \ (r.left \cup {r.c}) : ~Holds(d, r.cand)
  /\ r.pc \in {"save", "rename"} /\ r.ret = "boot" /\ r.cfg.mode = "nat" /\ ~box[r.c].excused =>
       \A d \in Cont \ {r.c} : ~Holds(d, r.cfg.ip)

Apart ==
  /\ \A p \in Proc : Clear(ps[p])
  /\ \A c, d \in Cont : \A a \in 0..Size : c # d => ~(Holds(c, a) /\ Holds(d, a))

StoreInv == Shapes /\ Control /\ Lines /\ Written /\ Apart

-----------------------------------------------------------------------------
(***************************************************************************)
(* Loading, saving and flags.                                              *)
(***************************************************************************)
LEMMA TextIsFile ==
  ASSUME NEW t, IsText(t)
  PROVE  t # NoFile
BY DEF IsText, NoFile, Default

LEMMA KnownConfigs == IsConfig(Default) /\ IsConfig(Zeroed) /\ IsText(Empty)
<1>1. 0 \in 0..Size
  BY ConfigAssumption
<1>2. IsConfig(Default)
  BY <1>1 DEF IsConfig, Shaped, Default
<1>3. Shaped(Zeroed) /\ Zeroed.mode = "host" /\ Zeroed.ip = 0
  BY DEF Shaped, Default, Zeroed
<1>4. Shaped(Empty) /\ Empty.mode = "absent"
  BY DEF Shaped, Default, Empty
<1> QED
  BY <1>1, <1>2, <1>3, <1>4 DEF IsConfig, IsText

LEMMA KnownTexts ==
  ASSUME NEW t \in Texts, NEW n
  PROVE  IsText(t) /\ IsText([t EXCEPT !.app = n])
<1>1. t \in [root : BOOLEAN, mode : {"host", "nat"}, limit : Nat, ports : Seq(Forward),
             ip : Addr \cup {0, Bad}, binds : SUBSET Bind, app : {0}]
  BY ConfigAssumption
<1> QED
  BY <1>1 DEF IsText, Shaped

(* What is laid over a configuration. *)
LEMMA Loads ==
  ASSUME NEW cfg, NEW t, IsConfig(cfg), t = NoFile \/ IsText(t)
  PROVE  /\ IsConfig(ds_config_load(t, cfg))
         /\ t = NoFile => ds_config_load(t, cfg) = cfg
         /\ t # NoFile =>
              /\ ds_config_load(t, cfg).mode = IF t.mode = "absent" THEN cfg.mode ELSE t.mode
              /\ ds_config_load(t, cfg).ip = IF t.ip \in Addr THEN t.ip ELSE cfg.ip
              /\ ds_config_load(t, cfg).app = t.app
<1>1. CASE t = NoFile
  BY <1>1 DEF ds_config_load
<1>2. CASE t # NoFile
  <2>1. ds_config_load(t, cfg)
          = [root  |-> cfg.root \/ t.root,
             mode  |-> IF t.mode = "absent" THEN cfg.mode ELSE t.mode,
             limit |-> IF t.limit > 0 THEN t.limit ELSE cfg.limit,
             ports |-> AddForwards(cfg.ports, t.ports),
             ip    |-> IF t.ip \in Addr THEN t.ip ELSE cfg.ip,
             binds |-> cfg.binds \cup t.binds,
             app   |-> t.app]
    BY <1>2 DEF ds_config_load
  <2>2. /\ cfg.mode \in {"host", "nat"} /\ cfg.ip \in 0..Size
        /\ t.mode \in {"host", "nat", "absent"}
    BY <1>2 DEF IsConfig, IsText
  <2>3. Addr \subseteq 0..Size
    BY ConfigAssumption DEF Addr
  <2> QED
    BY <1>2, <2>1, <2>2, <2>3 DEF IsConfig, Shaped
<1> QED
  BY <1>1, <1>2

(* What is written of a configuration. *)
LEMMA Serializes ==
  ASSUME NEW cfg, IsConfig(cfg)
  PROVE  /\ IsText(Serialize(cfg)) /\ Serialize(cfg) # NoFile
         /\ Serialize(cfg).mode = cfg.mode /\ Serialize(cfg).app = cfg.app
         /\ cfg.mode = "nat" => Serialize(cfg).ip = cfg.ip
<1>1. /\ IsText(Serialize(cfg))
      /\ Serialize(cfg).mode = cfg.mode /\ Serialize(cfg).app = cfg.app
      /\ cfg.mode = "nat" => Serialize(cfg).ip = cfg.ip
  BY DEF IsConfig, IsText, Shaped, Serialize
<1> QED
  BY <1>1, TextIsFile

LEMMA CutShort ==
  ASSUME NEW t, IsText(t), NEW k \in 0..6
  PROVE  IsText(FirstKeys(t, k))
BY DEF IsText, Shaped, FirstKeys

(* A file that was just written says what was written. *)
LEMMA WrittenSays ==
  ASSUME NEW cfg, IsConfig(cfg)
  PROVE  Says(Serialize(cfg), cfg)
<1>1. /\ IsText(Serialize(cfg)) /\ Serialize(cfg) # NoFile /\ Serialize(cfg).mode = cfg.mode
      /\ cfg.mode = "nat" => Serialize(cfg).ip = cfg.ip
  BY Serializes
<1>2. IsConfig(Zeroed) /\ Zeroed.ip = 0
  BY KnownConfigs DEF Zeroed, Default
<1>3. cfg.mode \in {"host", "nat"} /\ cfg.ip \in 0..Size
  BY DEF IsConfig
<1>4. /\ ds_config_load(Serialize(cfg), Zeroed).mode
           = IF Serialize(cfg).mode = "absent" THEN Zeroed.mode ELSE Serialize(cfg).mode
      /\ ds_config_load(Serialize(cfg), Zeroed).ip
           = IF Serialize(cfg).ip \in Addr THEN Serialize(cfg).ip ELSE Zeroed.ip
  BY <1>1, <1>2, Loads
<1> QED
  BY <1>1, <1>2, <1>3, <1>4, ConfigAssumption DEF Says, Addr

(* A file that is not written because it says so already, says so. *)
LEMMA SkippedSays ==
  ASSUME NEW cfg, NEW t, IsConfig(cfg), IsText(t),
         Known(Serialize(ds_config_load(t, Zeroed))) = Known(Serialize(cfg))
  PROVE  Says(t, cfg)
<1> DEFINE d == ds_config_load(t, Zeroed)
<1>1. IsConfig(d) /\ t # NoFile
  BY KnownConfigs, Loads, TextIsFile
<1> HIDE DEF d
<1>2. \A c : IsConfig(c) => Known(Serialize(c)).mode = c.mode
                            /\ (c.mode = "nat" => Known(Serialize(c)).ip = c.ip)
  BY DEF IsConfig, Shaped, Serialize, Known
<1>3. Known(Serialize(d)) = Known(Serialize(cfg))
  BY DEF d
<1>4. d.mode = cfg.mode /\ (cfg.mode = "nat" => d.ip = cfg.ip)
  BY <1>1, <1>2, <1>3
<1> QED
  BY <1>1, <1>4 DEF Says, d

LEMMA FlagsKeep ==
  ASSUME NEW cfg, NEW args \in Arg, IsConfig(cfg)
  PROVE  /\ IsConfig(WithFlags(args, cfg)) /\ WithFlags(args, cfg).app = cfg.app
         /\ IsConfig(enforce_nat_safety(cfg)) /\ enforce_nat_safety(cfg).app = cfg.app
         /\ IsConfig(ds_config_reset_defaults(cfg)) /\ ds_config_reset_defaults(cfg).app = cfg.app
<1>1. args \in [reset : BOOLEAN, root : BOOLEAN, mode : {"keep", "host", "nat"},
                ports : Seq(Forward), ip : Addr \cup {0}]
  BY ConfigAssumption
<1>2. args.mode \in {"keep", "host", "nat"} /\ args.ip \in 0..Size
  BY <1>1, ConfigAssumption DEF Addr
<1>3. IsConfig(WithFlags(args, cfg)) /\ WithFlags(args, cfg).app = cfg.app
  BY <1>2 DEF IsConfig, Shaped, WithFlags
<1>4. IsConfig(enforce_nat_safety(cfg)) /\ enforce_nat_safety(cfg).app = cfg.app
  BY DEF IsConfig, Shaped, enforce_nat_safety
<1>5. IsConfig(ds_config_reset_defaults(cfg)) /\ ds_config_reset_defaults(cfg).app = cfg.app
  <2>1. 0 \in 0..Size
    BY ConfigAssumption
  <2>2. /\ Shaped(ds_config_reset_defaults(cfg)) /\ ds_config_reset_defaults(cfg).mode = "nat"
        /\ ds_config_reset_defaults(cfg).ip = 0 /\ ds_config_reset_defaults(cfg).app = cfg.app
    BY DEF Shaped, ds_config_reset_defaults, Default
  <2> QED
    BY <2>1, <2>2 DEF IsConfig
<1> QED
  BY <1>3, <1>4, <1>5

(* A command that is not running. *)
LEMMA IdleCommand ==
  /\ IsCommand(Idle) /\ Idle.pc = "idle" /\ Idle.cmd = "stop" /\ ~Idle.again
  /\ ~Starts(Idle) /\ ~Booting(Idle)
<1>1. Plain \in Arg /\ 0 \in 0..Size /\ (CHOOSE c \in Cont : TRUE) \in Cont
  BY ConfigAssumption
<1>2. IsConfig(Default)
  BY KnownConfigs
<1>3. IsCommand(Idle)
  BY <1>1, <1>2 DEF IsCommand, Idle, Pcs
<1> QED
  BY <1>3 DEF Idle, Starts, Booting

(* A step of the command that keeps what it is about. *)
Same(f, r) == f.c = r.c /\ f.cmd = r.cmd /\ f.again = r.again /\ f.over = r.over

(* The flags end the command, or bring it to its work. *)
LEMMA FlagsLead ==
  ASSUME NEW r, IsCommand(r)
  PROVE  \/ Flagged(r) = Idle
         \/ /\ IsCommand(Flagged(r)) /\ Same(Flagged(r), r) /\ Flagged(r).pc \in {"begin", "stop"}
            /\ Flagged(r).cfg.app = r.cfg.app
            /\ Flagged(r).pc = "begin" => r.cmd = "start" \/ r.again
<1> DEFINE w == WithFlags(r.args, r.cfg)
           k == IF r.cmd = "stop" \/ r.again THEN w ELSE enforce_nat_safety(w)
           f == [r EXCEPT !.pc = IF r.cmd = "start" \/ r.again THEN "begin" ELSE "stop", !.cfg = k]
<1>1. Flagged(r) = Idle \/ Flagged(r) = f
  BY DEF Flagged
<1>2. IsConfig(w) /\ w.app = r.cfg.app
  BY FlagsKeep DEF IsCommand
<1>3. IsConfig(enforce_nat_safety(w)) /\ enforce_nat_safety(w).app = w.app
  <2>1. r.args \in Arg
    BY DEF IsCommand
  <2> HIDE DEF w
  <2> QED
    BY <1>2, <2>1, FlagsKeep
<1> HIDE DEF w
<1>4. IsConfig(k) /\ k.app = r.cfg.app
  BY <1>2, <1>3
<1> HIDE DEF k
<1>5. IsCommand(f) /\ Same(f, r) /\ f.pc \in {"begin", "stop"} /\ f.cfg = k
      /\ (f.pc = "begin" => r.cmd = "start" \/ r.again)
  BY <1>4 DEF IsCommand, Pcs, Same
<1> QED
  BY <1>1, <1>4, <1>5

(* So do the overrides, which may save a reset configuration first. *)
LEMMA OverridesLead ==
  ASSUME NEW r, IsCommand(r)
  PROVE  LET f == ds_apply_cli_overrides(r) IN
         \/ f = Idle
         \/ /\ IsCommand(f) /\ Same(f, r) /\ f.cfg.app = r.cfg.app
            /\ f.pc \in {"begin", "stop"} \/ (f.pc = "save" /\ f.ret = "flags")
            /\ f.pc = "begin" => r.cmd = "start" \/ r.again
<1> DEFINE k == ds_config_reset_defaults(r.cfg)
           f == [r EXCEPT !.pc = "save", !.ret = "flags", !.cfg = k]
<1>1. ds_apply_cli_overrides(r) = f \/ ds_apply_cli_overrides(r) = Flagged(r)
  BY DEF ds_apply_cli_overrides
<1>2. IsConfig(k) /\ k.app = r.cfg.app
  BY FlagsKeep DEF IsCommand
<1> HIDE DEF k
<1>3. IsCommand(f) /\ Same(f, r) /\ f.pc = "save" /\ f.ret = "flags" /\ f.cfg.app = r.cfg.app
  BY <1>2 DEF IsCommand, Pcs, Same
<1> HIDE DEF f
<1> QED
  BY <1>1, <1>3, FlagsLead

LEMMA LoadLeads ==
  ASSUME NEW r, IsCommand(r), NEW t, t = NoFile \/ IsText(t), NEW cfg, IsConfig(cfg)
  PROVE  LET f == Loaded(r, t, cfg) IN
         \/ f = Idle
         \/ /\ IsCommand(f) /\ Same(f, r) /\ f.cfg.app = ds_config_load(t, cfg).app
            /\ f.pc \in {"begin", "stop"} \/ (f.pc = "save" /\ f.ret = "flags")
            /\ f.pc = "begin" => r.cmd = "start" \/ r.again
<1> DEFINE k == ds_config_load(t, cfg)
           l == [r EXCEPT !.cfg = k, !.asked = t]
<1>1. Loaded(r, t, cfg) = ds_apply_cli_overrides(l)
  BY DEF Loaded
<1>2. IsConfig(k)
  BY Loads
<1> HIDE DEF k
<1>3. IsCommand(l) /\ Same(l, r) /\ l.cfg = k
  BY <1>2 DEF IsCommand, Same
<1> HIDE DEF l
<1>4. LET f == ds_apply_cli_overrides(l) IN
      \/ f = Idle
      \/ /\ IsCommand(f) /\ Same(f, l) /\ f.cfg.app = l.cfg.app
         /\ f.pc \in {"begin", "stop"} \/ (f.pc = "save" /\ f.ret = "flags")
         /\ f.pc = "begin" => l.cmd = "start" \/ l.again
  BY <1>3, OverridesLead
<1> QED
  BY <1>1, <1>3, <1>4 DEF Same, k

-----------------------------------------------------------------------------
(***************************************************************************)
(* Quiet steps: nobody comes to hold an address that it did not hold.      *)
(***************************************************************************)
Agree(x, y) == x.mode = y.mode /\ (y.mode = "nat" => x.ip = y.ip)

(* A container keeps what it holds and what its file says; or it holds     *)
(* nothing; or it is excused.                                              *)
Calmer(d) ==
  ~box'[d].excused =>
    \/ /\ ~box[d].excused /\ file'[d] = file[d]
       /\ box'[d].up # "down" =>
            \/ box[d].up # "down" /\ Agree(box'[d].cfg, box[d].cfg)
            \/ \E q \in Proc : ps[q].pc = "boot" /\ ps[q].c = d /\ Agree(box'[d].cfg, ps[q].cfg)
    \/ /\ box'[d].up = "down"
       /\ \A q \in Proc : /\ ~(Booting(ps[q]) /\ ps[q].c = d)
                           /\ ~(ps'[q].pc = "boot" /\ ps'[q].c = d)

(* A command stays where it is; it may have been overtaken. *)
Alike(f, r) ==
  /\ f.pc = r.pc /\ f.cmd = r.cmd /\ f.c = r.c /\ f.cfg = r.cfg /\ f.cand = r.cand
  /\ f.left = r.left /\ f.ret = r.ret /\ f.again = r.again

Stays(f, r) ==
  /\ Alike(f, r) /\ (r.over => f.over)
  /\ Starts(r) => /\ box[r.c].up = "down" => box'[r.c].up = "down"
                  /\ r.cmd = "start" /\ box[r.c].up # "boot" => box'[r.c].up # "boot"
  /\ file'[r.c] = file[r.c] \/ f.over \/ r.pc = "idle"

(* The command that takes the step. *)
Moves(f, m) ==
  /\ f.pc = "boot" => box'[f.c].excused
  /\ f.pc = "scan" => \A d \in Cont \ (f.left \cup {f.c}) : ~Holds(d, f.cand)
  /\ f.pc \in {"save", "rename"} /\ f.ret = "boot" /\ f.cfg.mode = "nat" /\ ~box'[f.c].excused =>
       \A d \in Cont \ {f.c} : ~Holds(d, f.cfg.ip)
  /\ Starts(f) => \A q \in Proc \ {m} : ~(Starts(ps[q]) /\ ps[q].c = f.c)
  /\ f.pc = "begin" => Starts(f) /\ (f.cmd = "start" \/ f.again)
  /\ Booting(f) \/ f.again \/ f.pc = "reload" => Starts(f) /\ box'[f.c].up = "down"
  /\ Starts(f) /\ f.cmd = "start" => box'[f.c].up # "boot"
  /\ f.pc \notin {"idle", "load", "sync", "reload"} /\ ~f.over /\ file'[f.c] # NoFile =>
       f.cfg.app = file'[f.c].app

LEMMA QuietKeeps ==
  ASSUME StoreInv, Shapes', NEW m,
         \A d \in Cont : Calmer(d),
         \A q \in Proc : Stays(ps'[q], ps[q]) \/ (q = m /\ Moves(ps'[m], m))
  PROVE  StoreInv'
<1>1. /\ \A q \in Proc : Placed(ps[q]) /\ HasLines(ps[q]) /\ Clear(ps[q])
      /\ \A p, q \in Proc : p # q /\ Starts(ps[p]) /\ Starts(ps[q]) => ps[p].c # ps[q].c
  BY DEF StoreInv, Control, Lines, Apart
<1>2. \A q \in Proc : ps[q].c \in Cont /\ ps'[q].c \in Cont
  BY DEF StoreInv, Shapes, IsCommand
<1>3. ASSUME NEW d \in Cont, NEW a, Holds(d, a)'
      PROVE  Holds(d, a)
  <2>1. ~box'[d].excused
    BY <1>3 DEF Holds
  <2>2. CASE \E p \in Proc : ps'[p].pc = "boot" /\ ps'[p].c = d /\ ps'[p].cfg.mode = "nat" /\ ps'[p].cfg.ip = a
    <3>1. PICK p \in Proc : ps'[p].pc = "boot" /\ ps'[p].c = d /\ ps'[p].cfg.mode = "nat" /\ ps'[p].cfg.ip = a
      BY <2>2
    <3>2. Alike(ps'[p], ps[p])
      BY <2>1, <3>1 DEF Moves, Stays
    <3>3. ps[p].pc = "boot" /\ ps[p].c = d /\ ps[p].cfg.mode = "nat" /\ ps[p].cfg.ip = a
      BY <3>1, <3>2 DEF Alike
    <3>4. ~box[d].excused
      BY <2>1, <3>1, <3>3 DEF Calmer, Booting
    <3> QED
      BY <3>3, <3>4 DEF Holds
  <2>3. CASE box'[d].up # "down" /\ box'[d].cfg.mode = "nat" /\ box'[d].cfg.ip = a
    BY <2>1, <2>3 DEF Calmer, Holds, Agree
  <2> QED
    BY <1>3, <2>2, <2>3 DEF Holds
<1>4. ASSUME NEW q \in Proc
      PROVE  /\ Placed(ps[q])' /\ HasLines(ps[q])' /\ Clear(ps[q])'
             /\ Starts(ps'[q]) => \A x \in Proc \ {q} : ~(Starts(ps'[x]) /\ ps'[x].c = ps'[q].c)
  <2>1. CASE q = m /\ Moves(ps'[m], m)
    <3>1. Placed(ps[q])' /\ HasLines(ps[q])'
      BY <2>1 DEF Moves, Placed, HasLines, Starts, Booting
    <3>2. Clear(ps[q])'
      BY <1>2, <1>3, <2>1 DEF Moves, Clear
    <3>3. ASSUME Starts(ps'[q]), NEW x \in Proc \ {q}, Starts(ps'[x]), ps'[x].c = ps'[q].c
          PROVE  FALSE
      <4>1. Stays(ps'[x], ps[x])
        BY <2>1, <3>3
      <4>2. Starts(ps[x]) /\ ps[x].c = ps'[q].c
        BY <3>3, <4>1 DEF Stays, Alike, Starts
      <4> QED
        BY <2>1, <3>3, <4>2 DEF Moves
    <3> QED
      BY <3>1, <3>2, <3>3
  <2>2. CASE Stays(ps'[q], ps[q])
    <3>1. /\ ps'[q].pc = ps[q].pc /\ ps'[q].cmd = ps[q].cmd /\ ps'[q].c = ps[q].c /\ ps'[q].cfg = ps[q].cfg
          /\ ps'[q].cand = ps[q].cand /\ ps'[q].left = ps[q].left /\ ps'[q].ret = ps[q].ret
          /\ ps'[q].again = ps[q].again /\ (ps[q].over => ps'[q].over)
      BY <2>2 DEF Stays, Alike
    <3>2. Starts(ps'[q]) = Starts(ps[q]) /\ Booting(ps'[q]) = Booting(ps[q])
      BY <3>1 DEF Starts, Booting
    <3>3. Placed(ps[q])'
      BY <1>1, <2>2, <3>1, <3>2 DEF Stays, Placed, Starts, Booting
    <3>4. HasLines(ps[q])'
      BY <1>1, <2>2, <3>1 DEF Stays, HasLines
    <3>5. Clear(ps[q])'
      <4>1. ps'[q].pc = "scan" => \A d \in Cont \ (ps'[q].left \cup {ps'[q].c}) : ~Holds(d, ps[q].cand)'
        BY <1>1, <1>3, <3>1 DEF Clear
      <4>2. ASSUME ps'[q].pc \in {"save", "rename"}, ps'[q].ret = "boot", ps'[q].cfg.mode = "nat",
                   ~box'[ps'[q].c].excused
            PROVE  \A d \in Cont \ {ps'[q].c} : ~Holds(d, ps[q].cfg.ip)'
        <5>1. Booting(ps[q])
          BY <3>1, <4>2 DEF Booting
        <5>2. ~box[ps[q].c].excused
          BY <1>2, <3>1, <4>2, <5>1 DEF Calmer
        <5> QED
          BY <1>1, <1>3, <3>1, <4>2, <5>2 DEF Clear
      <4> QED
        BY <4>1, <4>2 DEF Clear
    <3>6. ASSUME Starts(ps'[q]), NEW x \in Proc \ {q}, Starts(ps'[x]), ps'[x].c = ps'[q].c
          PROVE  FALSE
      <4>1. Starts(ps[q])
        BY <3>2, <3>6
      <4>2. CASE Stays(ps'[x], ps[x])
        <5>1. Starts(ps[x]) /\ ps[x].c = ps'[q].c
          BY <3>6, <4>2 DEF Stays, Alike, Starts
        <5> QED
          BY <1>1, <3>1, <4>1, <5>1
      <4>3. CASE x = m /\ Moves(ps'[m], m)
        BY <3>1, <3>6, <4>1, <4>3 DEF Moves
      <4> QED
        BY <4>2, <4>3
    <3> QED
      BY <3>3, <3>4, <3>5, <3>6
  <2> QED
    BY <2>1, <2>2
<1>5. Written'
  <2>1. ASSUME NEW c \in Cont, box'[c].up # "down", ~box'[c].excused
        PROVE  Says(file[c], box[c].cfg)'
    <3>1. /\ ~box[c].excused /\ file'[c] = file[c]
          /\ \/ box[c].up # "down" /\ Agree(box'[c].cfg, box[c].cfg)
             \/ \E q \in Proc : ps[q].pc = "boot" /\ ps[q].c = c /\ Agree(box'[c].cfg, ps[q].cfg)
      BY <2>1 DEF Calmer
    <3>2. PICK k : Says(file[c], k) /\ Agree(box'[c].cfg, k)
      BY <3>1 DEF StoreInv, Written
    <3> QED
      BY <3>1, <3>2 DEF Says, Agree
  <2>2. ASSUME NEW p \in Proc, ps'[p].pc = "boot", ~box'[ps'[p].c].excused
        PROVE  Says(file[ps[p].c], ps[p].cfg)'
    <3>1. Alike(ps'[p], ps[p])
      BY <2>2 DEF Moves, Stays
    <3>2. ps[p].pc = "boot" /\ ps'[p].c = ps[p].c /\ ps'[p].cfg = ps[p].cfg
      BY <2>2, <3>1 DEF Alike
    <3>3. ~box[ps[p].c].excused /\ file'[ps[p].c] = file[ps[p].c]
      BY <1>2, <2>2, <3>2 DEF Calmer, Booting
    <3> QED
      BY <3>2, <3>3 DEF StoreInv, Written, Says
  <2> QED
    BY <2>1, <2>2 DEF Written
<1>6. Control' /\ Lines'
  BY <1>4 DEF Control, Lines
<1>7. Apart'
  <2>1. \A c, d \in Cont : \A a \in 0..Size : c # d => ~(Holds(c, a)' /\ Holds(d, a)')
    BY <1>3 DEF StoreInv, Apart
  <2> QED
    BY <1>4, <2>1 DEF Apart
<1> QED
  BY <1>5, <1>6, <1>7 DEF StoreInv

(* The step that is not quiet: a start has saved, and comes to hold its    *)
(* address.  Whoever is looking at the time excuses it; whoever looks      *)
(* later finds it in the file.                                             *)
LEMMA SavedKeeps ==
  ASSUME StoreInv, Shapes', NEW p \in Proc, ps[p].pc \in {"save", "rename"}, ps[p].ret = "boot",
         ps'[p] = [ps[p] EXCEPT !.pc = "boot"],
         \A q \in Proc \ {p} :
           /\ Alike(ps'[q], ps[q]) /\ (ps[q].over => ps'[q].over)
           /\ file'[ps[q].c] = file[ps[q].c] \/ ps'[q].over \/ ps[q].pc = "idle",
         \A d \in Cont \ {ps[p].c} : box'[d] = box[d] /\ file'[d] = file[d],
         box'[ps[p].c].up = box[ps[p].c].up,
         box'[ps[p].c].excused = (box[ps[p].c].excused \/ Looking(p, ps[p].c)),
         Says(file'[ps[p].c], ps[p].cfg),
         ~ps[p].over => ps[p].cfg.app = file'[ps[p].c].app
  PROVE  StoreInv'
<1> DEFINE c == ps[p].c
<1>1. /\ \A q \in Proc : Placed(ps[q]) /\ HasLines(ps[q]) /\ Clear(ps[q])
      /\ \A q, x \in Proc : q # x /\ Starts(ps[q]) /\ Starts(ps[x]) => ps[q].c # ps[x].c
  BY DEF StoreInv, Control, Lines, Apart
<1>2. \A q \in Proc : ps[q].c \in Cont
  BY DEF StoreInv, Shapes, IsCommand
<1>3. /\ ps'[p].pc = "boot" /\ ps'[p].cmd = ps[p].cmd /\ ps'[p].c = c /\ ps'[p].cfg = ps[p].cfg
      /\ ps'[p].again = ps[p].again /\ ps'[p].over = ps[p].over
  BY DEF StoreInv, Shapes, IsCommand
<1>4. Starts(ps[p]) /\ Booting(ps[p]) /\ box[c].up = "down" /\ Starts(ps'[p])
  BY <1>1, <1>3 DEF Placed, Booting, Starts
<1>5. \A q \in Proc \ {p} :
        /\ ps'[q].pc = ps[q].pc /\ ps'[q].cmd = ps[q].cmd /\ ps'[q].c = ps[q].c /\ ps'[q].cfg = ps[q].cfg
        /\ ps'[q].cand = ps[q].cand /\ ps'[q].left = ps[q].left /\ ps'[q].ret = ps[q].ret
        /\ ps'[q].again = ps[q].again
  BY DEF Alike
<1>6. \A q \in Proc \ {p} : Starts(ps'[q]) = Starts(ps[q]) /\ Booting(ps'[q]) = Booting(ps[q])
  BY <1>5 DEF Starts, Booting
<1>7. \A q \in Proc : box'[ps[q].c].up = box[ps[q].c].up
  BY <1>2
<1>8. Control'
  <2>1. \A q \in Proc \ {p} : Placed(ps[q])'
    BY <1>1, <1>5, <1>6, <1>7 DEF Placed
  <2>2. Placed(ps[p])'
    BY <1>1, <1>3, <1>4, <1>7 DEF Placed, Starts
  <2>3. \A q \in Proc : ps'[q].c = ps[q].c /\ (Starts(ps'[q]) => Starts(ps[q]))
    <3> TAKE q \in Proc
    <3>1. CASE q = p
      BY <1>3, <1>4, <3>1
    <3>2. CASE q # p
      BY <1>5, <1>6, <3>2
    <3> QED
      BY <3>1, <3>2
  <2>4. \A q, x \in Proc : q # x /\ Starts(ps'[q]) /\ Starts(ps'[x]) => ps'[q].c # ps'[x].c
    BY <1>1, <2>3
  <2> QED
    BY <2>1, <2>2, <2>4 DEF Control
<1>9. Lines'
  <2>1. HasLines(ps[p])'
    BY <1>3 DEF HasLines
  <2>2. \A q \in Proc \ {p} : HasLines(ps[q])'
    BY <1>1, <1>5 DEF HasLines
  <2> QED
    BY <2>1, <2>2 DEF Lines
<1>10. \A q \in Proc \ {p} : Booting(ps[q]) => ps[q].c # c
  BY <1>1, <1>4 DEF Placed
<1>11. ASSUME NEW d \in Cont \ {c}, NEW a, Holds(d, a)'
       PROVE  Holds(d, a)
  <2>1. \A q \in Proc : ps'[q].pc = "boot" /\ ps'[q].c = d =>
                        ps[q].pc = "boot" /\ ps'[q].cfg = ps[q].cfg /\ ps[q].c = d
    <3> TAKE q \in Proc
    <3>1. CASE q = p
      BY <1>3, <1>11, <3>1
    <3>2. CASE q # p
      BY <1>5, <3>2
    <3> QED
      BY <3>1, <3>2
  <2>2. box'[d] = box[d]
    BY <1>11
  <2> QED
    BY <1>11, <2>1, <2>2 DEF Holds
<1>12. ASSUME NEW a, Holds(c, a)'
       PROVE  /\ ~box[c].excused /\ ~Looking(p, c) /\ ps[p].cfg.mode = "nat" /\ ps[p].cfg.ip = a
              /\ \A d \in Cont \ {c} : ~Holds(d, a)
  <2>1. ~box[c].excused /\ ~Looking(p, c)
    <3>1. ~box'[c].excused
      BY <1>12 DEF Holds
    <3> QED
      BY <3>1
  <2>2. box'[c].up = "down"
    BY <1>4
  <2>3. PICK q \in Proc : ps'[q].pc = "boot" /\ ps'[q].c = c /\ ps'[q].cfg.mode = "nat" /\ ps'[q].cfg.ip = a
    BY <1>12, <2>2 DEF Holds
  <2>4. q = p
    BY <1>5, <1>10, <2>3 DEF Booting
  <2>5. ps[p].cfg.mode = "nat" /\ ps[p].cfg.ip = a
    BY <1>3, <2>3, <2>4
  <2> QED
    BY <1>1, <2>1, <2>5 DEF Clear
<1>13. Written'
  <2>1. \A d \in Cont : box'[d].up # "down" /\ ~box'[d].excused => Says(file[d], box[d].cfg)'
    BY <1>4 DEF StoreInv, Written
  <2>2. \A q \in Proc : ps'[q].pc = "boot" /\ ~box'[ps'[q].c].excused => Says(file[ps[q].c], ps[q].cfg)'
    <3> TAKE q \in Proc
    <3>1. CASE q = p
      BY <1>3, <3>1
    <3>2. CASE q # p
      BY <1>2, <1>5, <1>10, <3>2 DEF StoreInv, Written, Booting
    <3> QED
      BY <3>1, <3>2
  <2> QED
    BY <2>1, <2>2 DEF Written
<1>14. ASSUME NEW q \in Proc
       PROVE  Clear(ps[q])'
  <2>1. CASE q = p
    BY <1>3, <2>1 DEF Clear
  <2>2. CASE q # p
    <3>1. ASSUME ps[q].pc = "scan", NEW d \in Cont \ (ps[q].left \cup {ps[q].c}), Holds(d, ps[q].cand)'
          PROVE  FALSE
      <4>1. ps'[q].cand = ps[q].cand
        BY <1>5, <2>2
      <4>2. CASE d # c
        BY <1>1, <1>11, <2>2, <3>1, <4>1, <4>2 DEF Clear
      <4>3. CASE d = c
        <5>1. Looking(p, c)
          BY <1>10, <2>2, <3>1 DEF Looking, Booting
        <5> QED
          BY <1>12, <3>1, <4>1, <4>3, <5>1
      <4> QED
        BY <4>2, <4>3
    <3>2. ASSUME ps[q].pc \in {"save", "rename"}, ps[q].ret = "boot", ps[q].cfg.mode = "nat",
                 ~box'[ps[q].c].excused, NEW d \in Cont \ {ps[q].c}, Holds(d, ps[q].cfg.ip)'
          PROVE  FALSE
      <4>1. ps'[q].cfg = ps[q].cfg /\ ps[q].c # c /\ Booting(ps[q])
        BY <1>5, <1>10, <2>2, <3>2 DEF Booting
      <4>2. ~box[ps[q].c].excused
        BY <1>2, <3>2, <4>1
      <4>3. CASE d # c
        BY <1>1, <1>11, <3>2, <4>1, <4>2, <4>3 DEF Clear
      <4>4. CASE d = c
        <5>1. Looking(p, c)
          BY <2>2, <3>2, <4>1 DEF Looking
        <5> QED
          BY <1>12, <3>2, <4>1, <4>4, <5>1
      <4> QED
        BY <4>3, <4>4
    <3> QED
      BY <1>5, <2>2, <3>1, <3>2 DEF Clear
  <2> QED
    BY <2>1, <2>2
<1>15. ASSUME NEW d \in Cont, NEW x \in Cont, NEW a \in 0..Size, d # x, Holds(d, a)', Holds(x, a)'
       PROVE  FALSE
  <2>1. CASE d = c
    BY <1>11, <1>12, <1>15, <2>1
  <2>2. CASE x = c
    BY <1>11, <1>12, <1>15, <2>2
  <2>3. CASE d # c /\ x # c
    BY <1>11, <1>15, <2>3 DEF StoreInv, Apart
  <2> QED
    BY <2>1, <2>2, <2>3
<1>16. Apart'
  BY <1>14, <1>15 DEF Apart
<1> QED
  BY <1>8, <1>9, <1>13, <1>16 DEF StoreInv

-----------------------------------------------------------------------------
(***************************************************************************)
(* The actions.                                                            *)
(***************************************************************************)
LEMMA BecomeShapes ==
  ASSUME StoreInv, NEW p \in Proc, NEW f, IsCommand(f), Become(p, f)
  PROVE  /\ ps' = [q \in Proc |-> ps'[q]] /\ \A q \in Proc : IsCommand(ps'[q])
         /\ ps'[p] = f /\ \A q \in Proc \ {p} : ps'[q] = ps[q]
BY DEF StoreInv, Shapes, Become

LEMMA BoxShapes ==
  ASSUME StoreInv, NEW c \in Cont, NEW b, IsBox(b), box' = [box EXCEPT ![c] = b]
  PROVE  /\ box' = [d \in Cont |-> box'[d]] /\ \A d \in Cont : IsBox(box'[d])
         /\ box'[c] = b /\ \A d \in Cont \ {c} : box'[d] = box[d]
BY DEF StoreInv, Shapes

LEMMA FileShapes ==
  ASSUME StoreInv, NEW c \in Cont, NEW t, t = NoFile \/ IsText(t), file' = [file EXCEPT ![c] = t]
  PROVE  /\ file' = [d \in Cont |-> file'[d]] /\ \A d \in Cont : file'[d] = NoFile \/ IsText(file'[d])
         /\ file'[c] = t /\ \A d \in Cont \ {c} : file'[d] = file[d]
BY DEF StoreInv, Shapes

LEMMA CountShapes ==
  ASSUME StoreInv, NEW k \in {"cmd", "edit", "reboot", "lost"}, Count(k)
  PROVE  count' \in [cmd : Nat, edit : Nat, reboot : Nat, lost : Nat]
BY DEF StoreInv, Shapes, Count

LEMMA TouchedShapes ==
  ASSUME StoreInv, NEW c \in Cont, Touched(c)
  PROVE  /\ box' = [d \in Cont |-> box'[d]] /\ \A d \in Cont : IsBox(box'[d])
         /\ \A d \in Cont \ {c} : box'[d] = box[d]
         /\ box'[c].up = box[c].up /\ box'[c].excused
<1> DEFINE b == [box[c] EXCEPT !.touched = TRUE, !.excused = TRUE]
<1>1. IsBox(box[c])
  BY DEF StoreInv, Shapes
<1>2. IsBox(b) /\ b.up = box[c].up /\ b.excused
  BY <1>1 DEF IsBox
<1>3. box' = [box EXCEPT ![c] = b]
  BY DEF Touched, StoreInv, Shapes
<1> HIDE DEF b
<1> QED
  BY <1>2, <1>3, BoxShapes

LEMMA OvertakenShapes ==
  ASSUME StoreInv, NEW c, NEW S
  PROVE  /\ Overtaken(c, S) = [q \in Proc |-> Overtaken(c, S)[q]]
         /\ \A q \in Proc :
              LET f == Overtaken(c, S)[q] IN
              /\ IsCommand(f) /\ Alike(f, ps[q]) /\ (ps[q].over => f.over)
              /\ q \notin S /\ ps[q].c = c => f.over \/ ps[q].pc = "idle"
<1>1. ASSUME NEW q \in Proc
      PROVE  LET f == Overtaken(c, S)[q] IN
              /\ IsCommand(f) /\ Alike(f, ps[q]) /\ (ps[q].over => f.over)
              /\ q \notin S /\ ps[q].c = c => f.over \/ ps[q].pc = "idle"
  <2>1. IsCommand(ps[q])
    BY DEF StoreInv, Shapes
  <2>2. CASE q \notin S /\ ps[q].pc # "idle" /\ ps[q].c = c
    <3>1. Overtaken(c, S)[q] = [ps[q] EXCEPT !.over = TRUE]
      BY <2>2 DEF Overtaken
    <3> QED
      BY <2>1, <3>1 DEF IsCommand, Alike
  <2>3. CASE ~(q \notin S /\ ps[q].pc # "idle" /\ ps[q].c = c)
    <3>1. Overtaken(c, S)[q] = ps[q]
      BY <2>3 DEF Overtaken
    <3> QED
      BY <2>1, <2>3, <3>1 DEF Alike
  <2> QED
    BY <2>2, <2>3
<1> QED
  BY <1>1 DEF Overtaken

LEMMA IdleMoves ==
  ASSUME NEW m
  PROVE  Moves(Idle, m)
BY IdleCommand DEF Moves, Booting

(* A step of a command that changes nothing but itself. *)
LEMMA CommandMoves ==
  ASSUME StoreInv, NEW p \in Proc, NEW f, IsCommand(f), Become(p, f), UNCHANGED <<file, box>>,
         count' \in [cmd : Nat, edit : Nat, reboot : Nat, lost : Nat], Moves(f, p)
  PROVE  StoreInv'
<1>1. /\ ps' = [q \in Proc |-> ps'[q]] /\ \A q \in Proc : IsCommand(ps'[q])
      /\ ps'[p] = f /\ \A q \in Proc \ {p} : ps'[q] = ps[q]
  BY BecomeShapes
<1>2. Shapes'
  BY <1>1 DEF StoreInv, Shapes
<1>3. \A d \in Cont : Calmer(d)
  BY DEF Calmer, Agree
<1>4. \A q \in Proc : Stays(ps'[q], ps[q]) \/ (q = p /\ Moves(ps'[p], p))
  BY <1>1 DEF Stays, Alike
<1> QED
  BY <1>2, <1>3, <1>4, QuietKeeps

(* A file changes under the commands that do not notice. *)
LEMMA FileChanges ==
  ASSUME StoreInv, NEW c \in Cont, NEW t, t = NoFile \/ IsText(t), file' = [file EXCEPT ![c] = t],
         ps' = Overtaken(c, {}), Touched(c),
         count' \in [cmd : Nat, edit : Nat, reboot : Nat, lost : Nat]
  PROVE  StoreInv'
<1>1. /\ file' = [d \in Cont |-> file'[d]] /\ \A d \in Cont : file'[d] = NoFile \/ IsText(file'[d])
      /\ \A d \in Cont \ {c} : file'[d] = file[d]
  BY FileShapes
<1>2. /\ box' = [d \in Cont |-> box'[d]] /\ \A d \in Cont : IsBox(box'[d])
      /\ \A d \in Cont \ {c} : box'[d] = box[d]
      /\ box'[c].up = box[c].up /\ box'[c].excused
  BY TouchedShapes
<1>3. /\ ps' = [q \in Proc |-> ps'[q]]
      /\ \A q \in Proc :
           /\ IsCommand(ps'[q]) /\ Alike(ps'[q], ps[q]) /\ (ps[q].over => ps'[q].over)
           /\ ps[q].c = c => ps'[q].over \/ ps[q].pc = "idle"
  BY OvertakenShapes
<1>4. Shapes'
  BY <1>1, <1>2, <1>3 DEF Shapes
<1>5. \A d \in Cont : Calmer(d)
  BY <1>1, <1>2 DEF Calmer, Agree
<1>6. \A q \in Proc : ps[q].c \in Cont
  BY DEF StoreInv, Shapes, IsCommand
<1>7. \A q \in Proc : Stays(ps'[q], ps[q])
  BY <1>1, <1>2, <1>3, <1>6 DEF Stays
<1> QED
  BY <1>4, <1>5, <1>7, QuietKeeps

LEMMA BeginKeeps ==
  ASSUME StoreInv, NEW p \in Proc, Begin(p)
  PROVE  StoreInv'
<1>1. PICK c \in Cont, cmd \in {"start", "stop", "restart", "scan"}, a \in Arg :
        /\ cmd \in {"start", "restart"} =>
            /\ box[c].up # "boot"
            /\ \A q \in Proc : ps[q].pc # "idle" /\ ps[q].c = c =>
                                 ps[q].cmd \notin {"start", "restart"}
        /\ Become(p, [Idle EXCEPT !.pc = IF cmd = "scan" THEN "sync" ELSE "load",
                                 !.cmd = cmd, !.c = c, !.args = a])
  BY DEF Begin
<1> DEFINE f == [Idle EXCEPT !.pc = IF cmd = "scan" THEN "sync" ELSE "load",
                             !.cmd = cmd, !.c = c, !.args = a]
<1>2. IsCommand(f) /\ f.pc \in {"sync", "load"} /\ f.cmd = cmd /\ f.c = c /\ ~f.again
  BY IdleCommand DEF IsCommand, Pcs
<1>3. Become(p, f)
  BY <1>1
<1> HIDE DEF f
<1>4. Moves(f, p)
  <2>1. Starts(f) => /\ box[f.c].up # "boot"
                     /\ \A q \in Proc : ~(Starts(ps[q]) /\ ps[q].c = f.c)
    BY <1>1, <1>2 DEF Starts
  <2>2. box' = box
    BY DEF Begin
  <2> QED
    BY <1>2, <2>1, <2>2 DEF Moves, Booting
<1>5. count' \in [cmd : Nat, edit : Nat, reboot : Nat, lost : Nat] /\ UNCHANGED <<file, box>>
  BY CountShapes DEF Begin
<1> QED
  BY <1>2, <1>3, <1>4, <1>5, CommandMoves

(* The command whose turn it is, and what is known of it. *)
LEMMA OfCommand ==
  ASSUME StoreInv, NEW p \in Proc
  PROVE  /\ IsCommand(ps[p]) /\ Placed(ps[p]) /\ HasLines(ps[p]) /\ Clear(ps[p])
         /\ ps[p].c \in Cont /\ IsConfig(ps[p].cfg) /\ ps[p].args \in Arg
         /\ file[ps[p].c] = NoFile \/ IsText(file[ps[p].c])
         /\ IsBox(box[ps[p].c])
         /\ Starts(ps[p]) => \A q \in Proc \ {p} : ~(Starts(ps[q]) /\ ps[q].c = ps[p].c)
<1>1. IsCommand(ps[p]) /\ Placed(ps[p]) /\ HasLines(ps[p]) /\ Clear(ps[p])
  BY DEF StoreInv, Shapes, Control, Lines, Apart
<1>2. ps[p].c \in Cont /\ IsConfig(ps[p].cfg) /\ ps[p].args \in Arg
  BY <1>1 DEF IsCommand
<1>3. (file[ps[p].c] = NoFile \/ IsText(file[ps[p].c])) /\ IsBox(box[ps[p].c])
  BY <1>2 DEF StoreInv, Shapes
<1>4. Starts(ps[p]) => \A q \in Proc \ {p} : ~(Starts(ps[q]) /\ ps[q].c = ps[p].c)
  BY DEF StoreInv, Control
<1> QED
  BY <1>1, <1>2, <1>3, <1>4

(* A command that has loaded, or got through its flags, goes on in the     *)
(* same container.                                                         *)
LEMMA LeadMoves ==
  ASSUME StoreInv, NEW p \in Proc, NEW f, ps[p].pc # "idle",
         f.c = ps[p].c, f.cmd = ps[p].cmd,
         f.again => ps[p].again \/ ps[p].pc = "reload",
         f.pc \in {"begin", "stop"} \/ (f.pc = "save" /\ f.ret = "flags"),
         f.pc = "begin" => f.cmd = "start" \/ f.again,
         box'[ps[p].c].up = box[ps[p].c].up,
         ~f.over /\ file'[ps[p].c] # NoFile => f.cfg.app = file'[ps[p].c].app
  PROVE  Moves(f, p)
<1>1. /\ Placed(ps[p]) /\ (Starts(ps[p]) => \A q \in Proc \ {p} : ~(Starts(ps[q]) /\ ps[q].c = ps[p].c))
      /\ ps[p].cmd \in {"start", "stop", "restart", "scan"}
  BY OfCommand DEF IsCommand
<1>2. Starts(f) <=> Starts(ps[p])
  BY DEF Starts
<1>3. f.again => Starts(ps[p]) /\ box[ps[p].c].up = "down"
  BY <1>1 DEF Placed
<1>4. f.pc = "begin" => Starts(f) /\ (f.cmd = "start" \/ f.again)
  BY <1>2, <1>3 DEF Starts
<1>5. /\ ~Booting(f) /\ f.pc \notin {"reload", "boot", "scan"}
      /\ ~(f.pc \in {"save", "rename"} /\ f.ret = "boot")
  BY DEF Booting
<1>6. Starts(f) /\ f.cmd = "start" => box'[f.c].up # "boot"
  BY <1>1, <1>2 DEF Placed
<1> QED
  BY <1>1, <1>2, <1>3, <1>4, <1>5, <1>6 DEF Moves

LEMMA LoadKeeps ==
  ASSUME StoreInv, NEW p \in Proc, Load(p)
  PROVE  StoreInv'
<1> DEFINE r == ps[p]
           live == find_container_by_name(r.c)
           text == IF live /\ box[r.c].snap # NoFile THEN box[r.c].snap ELSE file[r.c]
           stale == live /\ (file[r.c] = NoFile \/ file[r.c].app # text.app)
           l == [r EXCEPT !.boot = IF live THEN box[r.c].n ELSE 0, !.over = stale]
           f == Loaded(l, text, Default)
<1>1. r.pc = "load" /\ (Become(p, Idle) \/ Become(p, f)) /\ UNCHANGED <<file, edit, box, count>>
  BY DEF Load
<1>2. IsCommand(r) /\ IsBox(box[r.c]) /\ (file[r.c] = NoFile \/ IsText(file[r.c]))
  BY OfCommand
<1>3. (text = NoFile \/ IsText(text)) /\ stale \in BOOLEAN /\ box[r.c].n \in Nat
      /\ (~stale /\ file[r.c] # NoFile => text = file[r.c] \/ (text # NoFile /\ text.app = file[r.c].app))
  BY <1>2 DEF IsBox
<1> HIDE DEF text, stale, live
<1>4. IsCommand(l) /\ l.c = r.c /\ l.cmd = r.cmd /\ l.again = r.again /\ l.over = stale
  BY <1>2, <1>3 DEF IsCommand
<1> HIDE DEF l
<1>5. \/ f = Idle
      \/ /\ IsCommand(f) /\ Same(f, l) /\ f.cfg.app = ds_config_load(text, Default).app
         /\ f.pc \in {"begin", "stop"} \/ (f.pc = "save" /\ f.ret = "flags")
         /\ f.pc = "begin" => l.cmd = "start" \/ l.again
  BY <1>3, <1>4, KnownConfigs, LoadLeads
<1>6. text # NoFile => ds_config_load(text, Default).app = text.app
  BY <1>3, KnownConfigs, Loads
<1> HIDE DEF f
<1>7. f # Idle => Moves(f, p)
  BY <1>1, <1>3, <1>4, <1>5, <1>6, LeadMoves DEF Same
<1>8. count' \in [cmd : Nat, edit : Nat, reboot : Nat, lost : Nat]
  BY <1>1 DEF StoreInv, Shapes
<1> QED
  BY <1>1, <1>5, <1>7, <1>8, IdleCommand, IdleMoves, CommandMoves

LEMMA ReloadKeeps ==
  ASSUME StoreInv, NEW p \in Proc, Reload(p)
  PROVE  StoreInv'
<1> DEFINE r == ps[p]
           k == ds_config_reset_defaults(r.cfg)
           l == [r EXCEPT !.again = TRUE, !.over = FALSE]
           f == Loaded(l, file[r.c], k)
<1>1. r.pc = "reload" /\ Become(p, f) /\ UNCHANGED <<file, edit, box, count>>
  BY DEF Reload
<1>2. IsCommand(r) /\ (file[r.c] = NoFile \/ IsText(file[r.c])) /\ IsConfig(k)
  BY OfCommand, FlagsKeep
<1>3. IsCommand(l) /\ l.c = r.c /\ l.cmd = r.cmd
  BY <1>2 DEF IsCommand
<1> HIDE DEF l, k
<1>4. \/ f = Idle
      \/ /\ IsCommand(f) /\ Same(f, l) /\ f.cfg.app = ds_config_load(file[r.c], k).app
         /\ f.pc \in {"begin", "stop"} \/ (f.pc = "save" /\ f.ret = "flags")
         /\ f.pc = "begin" => l.cmd = "start" \/ l.again
  BY <1>2, <1>3, LoadLeads
<1>5. file[r.c] # NoFile => ds_config_load(file[r.c], k).app = file[r.c].app
  BY <1>2, Loads
<1> HIDE DEF f
<1>6. f # Idle => Moves(f, p)
  BY <1>1, <1>3, <1>4, <1>5, LeadMoves DEF Same
<1>7. count' \in [cmd : Nat, edit : Nat, reboot : Nat, lost : Nat]
  BY <1>1 DEF StoreInv, Shapes
<1> QED
  BY <1>1, <1>4, <1>6, <1>7, IdleCommand, IdleMoves, CommandMoves

LEMMA SyncKeeps ==
  ASSUME StoreInv, NEW p \in Proc, Sync(p)
  PROVE  StoreInv'
<1> DEFINE r == ps[p]
           k == ds_config_load(box[r.c].snap, Zeroed)
           f == [r EXCEPT !.pc = "rename", !.ret = "idle", !.boot = box[r.c].n, !.cfg = k]
<1>1. r.pc = "sync" /\ UNCHANGED <<file, edit, box, count>>
      /\ (Become(p, Idle) \/ (Become(p, f) /\ file[r.c] = NoFile))
  BY DEF Sync, Exit
<1>2. IsCommand(r) /\ IsBox(box[r.c]) /\ Placed(r)
      /\ (Starts(r) => \A q \in Proc \ {p} : ~(Starts(ps[q]) /\ ps[q].c = r.c))
  BY OfCommand
<1>3. IsConfig(k) /\ box[r.c].n \in Nat
  BY <1>2, KnownConfigs, Loads DEF IsBox
<1> HIDE DEF k
<1>4. IsCommand(f) /\ f.pc = "rename" /\ f.ret = "idle" /\ f.c = r.c /\ f.cmd = r.cmd /\ f.again = r.again
  BY <1>2, <1>3 DEF IsCommand, Pcs
<1> HIDE DEF f
<1>5. file[r.c] = NoFile => Moves(f, p)
  BY <1>1, <1>2, <1>4 DEF Moves, Starts, Booting, Placed
<1>6. count' \in [cmd : Nat, edit : Nat, reboot : Nat, lost : Nat]
  BY <1>1 DEF StoreInv, Shapes
<1> QED
  BY <1>1, <1>4, <1>5, <1>6, IdleCommand, IdleMoves, CommandMoves

LEMMA KilledKeeps ==
  ASSUME StoreInv, NEW p \in Proc, Killed(p)
  PROVE  StoreInv'
<1>1. Become(p, Idle) /\ UNCHANGED <<file, box>>
      /\ count' \in [cmd : Nat, edit : Nat, reboot : Nat, lost : Nat]
  BY CountShapes DEF Killed, Exit
<1> QED
  BY <1>1, IdleCommand, IdleMoves, CommandMoves

(* The address a start tries is one of the subnet. *)
LEMMA NextInside ==
  ASSUME NEW a \in 0..Size
  PROVE  NextAddr(a) \in 0..Size
<1>1. Size \in Nat \ {0}
  BY ConfigAssumption
<1>2. a % Size \in 0..(Size - 1)
  BY <1>1
<1> QED
  BY <1>1, <1>2 DEF NextAddr

(* A start that looks at no address yet, or has settled for one nobody has *)
(* of the containers it looked at, goes on.                                *)
LEMMA SearchMoves ==
  ASSUME StoreInv, NEW p \in Proc, NEW f, ps[p].pc \in {"begin", "scan"}, Starts(ps[p]),
         f.c = ps[p].c, f.cmd = ps[p].cmd, f.again = ps[p].again, f.over = ps[p].over,
         f.cfg.app = ps[p].cfg.app, UNCHANGED file,
         box[ps[p].c].up = "down", box'[ps[p].c].up = "down",
         \/ f.pc = "scan" /\ \A d \in Cont \ (f.left \cup {f.c}) : ~Holds(d, f.cand)
         \/ /\ f.pc = "save" /\ f.ret = "boot"
            /\ f.cfg.mode = "nat" /\ ~box'[f.c].excused => \A d \in Cont \ {f.c} : ~Holds(d, f.cfg.ip)
  PROVE  Moves(f, p)
<1>1. /\ HasLines(ps[p])
      /\ \A q \in Proc \ {p} : ~(Starts(ps[q]) /\ ps[q].c = ps[p].c)
  BY OfCommand
<1>2. Starts(f)
  BY DEF Starts
<1>3. ~f.over /\ file'[f.c] # NoFile => f.cfg.app = file'[f.c].app
  BY <1>1 DEF HasLines
<1> QED
  BY <1>1, <1>2, <1>3 DEF Moves

LEMMA StartRootfsKeeps ==
  ASSUME StoreInv, NEW p \in Proc, StartRootfs(p)
  PROVE  StoreInv'
<1> DEFINE r == ps[p]
           n == [r EXCEPT !.pc = "scan", !.left = Others(r.c),
                          !.cand = IF r.cfg.ip = 0 THEN Hash[r.c] ELSE r.cfg.ip,
                          !.tries = IF r.cfg.ip = 0 THEN 1 ELSE 0]
           h == [r EXCEPT !.pc = "save", !.ret = "boot"]
           f == IF r.cfg.mode = "nat" THEN n ELSE h
           b == [box[r.c] EXCEPT !.excused = FALSE]
<1>1. r.pc = "begin" /\ UNCHANGED <<file, edit, count>>
  BY DEF StartRootfs
<1>2. /\ IsCommand(r) /\ r.c \in Cont /\ IsConfig(r.cfg) /\ Placed(r) /\ IsBox(box[r.c])
      /\ \A q \in Proc \ {p} : ~(Starts(ps[q]) /\ ps[q].c = r.c) \/ ~Starts(r)
  BY OfCommand
<1>3. count' \in [cmd : Nat, edit : Nat, reboot : Nat, lost : Nat]
  BY <1>1 DEF StoreInv, Shapes
<1>4. CASE Become(p, Idle) /\ UNCHANGED box
  BY <1>1, <1>3, <1>4, IdleCommand, IdleMoves, CommandMoves
<1>5. CASE /\ ~(~r.again /\ is_container_running(r.c))
           /\ Become(p, f) /\ box' = [box EXCEPT ![r.c].excused = FALSE]
  <2>1. Starts(r) /\ box[r.c].up = "down"
    BY <1>1, <1>2, <1>5 DEF Placed, is_container_running, IsBox
  <2>2. IsCommand(n) /\ IsCommand(h)
    <3>1. r.cfg.ip \in 0..Size /\ Hash[r.c] \in 0..Size /\ Others(r.c) \subseteq Cont
      BY <1>2, ConfigAssumption DEF IsConfig, Addr, Others
    <3> QED
      BY <1>2, <3>1 DEF IsCommand, Pcs
  <2>3. IsBox(b) /\ box' = [box EXCEPT ![r.c] = b] /\ b.up = "down"
    BY <1>2, <1>5, <2>1 DEF IsBox
  <2> HIDE DEF b
  <2>4. /\ box' = [d \in Cont |-> box'[d]] /\ \A d \in Cont : IsBox(box'[d])
        /\ box'[r.c] = b /\ \A d \in Cont \ {r.c} : box'[d] = box[d]
    BY <1>2, <2>3, BoxShapes
  <2>5. Moves(f, p) /\ f.pc # "boot"
    <3>1. /\ n.c = r.c /\ n.cmd = r.cmd /\ n.again = r.again /\ n.over = r.over /\ n.cfg = r.cfg
          /\ n.pc = "scan" /\ n.left = Others(r.c)
          /\ h.c = r.c /\ h.cmd = r.cmd /\ h.again = r.again /\ h.over = r.over /\ h.cfg = r.cfg
          /\ h.pc = "save" /\ h.ret = "boot"
      BY <1>2 DEF IsCommand
    <3>2. Cont \ (n.left \cup {n.c}) = {}
      BY <3>1 DEF Others
    <3> HIDE DEF n, h
    <3>3. CASE r.cfg.mode = "nat"
      BY <1>1, <2>1, <2>3, <2>4, <3>1, <3>2, <3>3, SearchMoves
    <3>4. CASE r.cfg.mode # "nat"
      BY <1>1, <2>1, <2>3, <2>4, <3>1, <3>4, SearchMoves
    <3> QED
      BY <3>3, <3>4
  <2> HIDE DEF n, h
  <2>6. IsCommand(f)
    BY <2>2
  <2> HIDE DEF f
  <2>7. /\ ps' = [q \in Proc |-> ps'[q]] /\ \A q \in Proc : IsCommand(ps'[q])
        /\ ps'[p] = f /\ \A q \in Proc \ {p} : ps'[q] = ps[q]
    BY <1>5, <2>6, BecomeShapes
  <2>8. Shapes'
    BY <1>1, <1>3, <2>4, <2>7 DEF StoreInv, Shapes
  <2>9. \A q \in Proc : ~(Booting(ps[q]) /\ ps[q].c = r.c)
    <3> TAKE q \in Proc
    <3>1. CASE q = p
      BY <1>1, <3>1 DEF Booting
    <3>2. CASE q # p
      <4>1. Placed(ps[q])
        BY OfCommand
      <4> QED
        BY <1>2, <2>1, <3>2, <4>1 DEF Placed
    <3> QED
      BY <3>1, <3>2
  <2>10. ASSUME NEW q \in Proc, ps'[q].pc = "boot", ps'[q].c = r.c
         PROVE  FALSE
    <3>1. CASE q = p
      BY <2>5, <2>7, <2>10, <3>1
    <3>2. CASE q # p
      BY <2>7, <2>9, <2>10, <3>2 DEF Booting
    <3> QED
      BY <3>1, <3>2
  <2>11. \A d \in Cont : Calmer(d)
    <3> TAKE d \in Cont
    <3>1. CASE d = r.c
      BY <2>3, <2>4, <2>9, <2>10, <3>1 DEF Calmer
    <3>2. CASE d # r.c
      BY <1>1, <2>4, <3>2 DEF Calmer, Agree
    <3> QED
      BY <3>1, <3>2
  <2>12. \A q \in Proc : Stays(ps'[q], ps[q]) \/ (q = p /\ Moves(ps'[p], p))
    <3> TAKE q \in Proc
    <3>1. CASE q = p
      BY <2>5, <2>7, <3>1
    <3>2. CASE q # p
      <4>1. ps'[q] = ps[q] /\ ps[q].c \in Cont
        BY <2>7, <3>2, OfCommand
      <4>2. box'[ps[q].c].up = box[ps[q].c].up
        BY <2>1, <2>3, <2>4, <4>1
      <4> QED
        BY <1>1, <4>1, <4>2 DEF Stays, Alike
    <3> QED
      BY <3>1, <3>2
  <2> QED
    BY <2>8, <2>11, <2>12, QuietKeeps
<1> QED
  BY <1>4, <1>5 DEF StartRootfs, Exit

(* It saves the address it settles for.                                    *)
LEMMA Settles ==
  ASSUME NEW r, IsCommand(r), NEW a \in 0..Size
  PROVE  /\ IsCommand(Settle(r, a)) /\ Same(Settle(r, a), r)
         /\ Settle(r, a).pc = "save" /\ Settle(r, a).ret = "boot"
         /\ Settle(r, a).cfg.app = r.cfg.app /\ Settle(r, a).cfg.ip = a
<1> DEFINE k == [r.cfg EXCEPT !.ip = a]
           f == [r EXCEPT !.pc = "save", !.ret = "boot", !.cfg = k, !.cand = 0, !.tries = 0, !.left = {}]
<1>1. Settle(r, a) = f
  BY DEF Settle, IsCommand
<1>2. IsConfig(k) /\ k.app = r.cfg.app /\ k.ip = a
  BY DEF IsCommand, IsConfig, Shaped
<1>3. 0 \in 0..Size
  BY ConfigAssumption
<1> HIDE DEF k
<1>4. IsCommand(f) /\ f.c = r.c /\ f.cmd = r.cmd /\ f.again = r.again /\ f.over = r.over
      /\ f.pc = "save" /\ f.ret = "boot" /\ f.cfg = k
  BY <1>2, <1>3 DEF IsCommand, Pcs
<1> QED
  BY <1>1, <1>2, <1>4 DEF Same

LEMMA ScanFileKeeps ==
  ASSUME StoreInv, NEW p \in Proc, ScanFile(p)
  PROVE  StoreInv'
<1> DEFINE r == ps[p]
<1>1. PICK d \in r.left :
       IF ds_config_load(file[d], Zeroed).ip # r.cand
       THEN Become(p, [r EXCEPT !.left = @ \ {d}]) /\ UNCHANGED box
       ELSE IF r.tries = Size
       THEN Become(p, Settle(r, NextAddr(r.cand))) /\ box' = [box EXCEPT ![r.c].excused = TRUE]
       ELSE /\ Become(p, [r EXCEPT !.left = Others(r.c), !.tries = @ + 1,
                                   !.cand = IF r.tries = 0 THEN Hash[r.c] ELSE NextAddr(@)])
            /\ UNCHANGED box
  BY DEF ScanFile
<1>2. r.pc = "scan" /\ UNCHANGED <<file, edit, count>>
  BY DEF ScanFile
<1>3. /\ IsCommand(r) /\ r.c \in Cont /\ IsConfig(r.cfg) /\ Placed(r) /\ Clear(r) /\ IsBox(box[r.c])
      /\ r.cand \in 0..Size /\ r.left \subseteq Cont
  <2>1. IsCommand(r)
    BY OfCommand
  <2>2. r.cand \in 0..Size /\ r.left \subseteq Cont
    BY <2>1 DEF IsCommand
  <2> QED
    BY <2>2, OfCommand
<1>4. count' \in [cmd : Nat, edit : Nat, reboot : Nat, lost : Nat]
  BY <1>2 DEF StoreInv, Shapes
<1>5. Starts(r) /\ box[r.c].up = "down"
  BY <1>2, <1>3 DEF Placed, Booting
<1>6. CASE ds_config_load(file[d], Zeroed).ip # r.cand
  <2> DEFINE f == [r EXCEPT !.left = @ \ {d}]
  <2>1. /\ IsCommand(f) /\ f.c = r.c /\ f.cmd = r.cmd /\ f.again = r.again /\ f.over = r.over
        /\ f.cfg = r.cfg /\ f.pc = "scan" /\ f.cand = r.cand /\ f.left = r.left \ {d}
    BY <1>2, <1>3 DEF IsCommand
  <2>2. ~Holds(d, r.cand)
    <3>1. ASSUME NEW k, Says(file[d], k), k.mode = "nat" PROVE k.ip # r.cand
      BY <1>6, <3>1 DEF Says
    <3> QED
      BY <1>3, <3>1 DEF StoreInv, Written, Holds
  <2>3. \A x \in Cont \ (f.left \cup {f.c}) : ~Holds(x, f.cand)
    BY <1>2, <1>3, <2>1, <2>2 DEF Clear
  <2>4. Become(p, f) /\ UNCHANGED box
    BY <1>1, <1>6
  <2> HIDE DEF f
  <2>5. Moves(f, p)
    BY <1>2, <1>5, <2>1, <2>3, <2>4, SearchMoves
  <2> QED
    BY <1>2, <1>4, <2>1, <2>4, <2>5, CommandMoves
<1>7. CASE ds_config_load(file[d], Zeroed).ip = r.cand /\ r.tries # Size
  <2> DEFINE a == IF r.tries = 0 THEN Hash[r.c] ELSE NextAddr(r.cand)
             f == [r EXCEPT !.left = Others(r.c), !.tries = @ + 1, !.cand = a]
  <2>1. a \in 0..Size
    <3>1. Hash[r.c] \in 0..Size
      BY <1>3, ConfigAssumption DEF Addr
    <3> QED
      BY <1>3, <3>1, NextInside
  <2>2. Become(p, f) /\ UNCHANGED box
    BY <1>1, <1>7
  <2> HIDE DEF a
  <2>3. /\ IsCommand(f) /\ f.c = r.c /\ f.cmd = r.cmd /\ f.again = r.again /\ f.over = r.over
        /\ f.cfg = r.cfg /\ f.pc = "scan" /\ f.left = Others(r.c)
    <3>1. r.tries + 1 \in Nat /\ Others(r.c) \in SUBSET Cont
      BY <1>3 DEF IsCommand, Others
    <3> QED
      BY <1>2, <1>3, <2>1, <3>1 DEF IsCommand
  <2> HIDE DEF f
  <2>4. Cont \ (f.left \cup {f.c}) = {}
    BY <2>3 DEF Others
  <2>5. Moves(f, p)
    BY <1>2, <1>5, <2>2, <2>3, <2>4, SearchMoves
  <2> QED
    BY <1>2, <1>4, <2>2, <2>3, <2>5, CommandMoves
<1>8. CASE ds_config_load(file[d], Zeroed).ip = r.cand /\ r.tries = Size
  <2> DEFINE a == NextAddr(r.cand)
             f == Settle(r, a)
             b == [box[r.c] EXCEPT !.excused = TRUE]
  <2>1. a \in 0..Size
    BY <1>3, NextInside
  <2>2. Become(p, f) /\ box' = [box EXCEPT ![r.c].excused = TRUE]
    BY <1>1, <1>8
  <2> HIDE DEF a
  <2>3. /\ IsCommand(f) /\ f.c = r.c /\ f.cmd = r.cmd /\ f.again = r.again /\ f.over = r.over
        /\ f.cfg.app = r.cfg.app /\ f.pc = "save" /\ f.ret = "boot"
    BY <1>3, <2>1, Settles DEF Same
  <2>4. IsBox(b) /\ box' = [box EXCEPT ![r.c] = b] /\ b.up = "down" /\ b.excused
    BY <1>3, <1>5, <2>2 DEF IsBox
  <2> HIDE DEF b, f
  <2>5. /\ box' = [x \in Cont |-> box'[x]] /\ \A x \in Cont : IsBox(box'[x])
        /\ box'[r.c] = b /\ \A x \in Cont \ {r.c} : box'[x] = box[x]
    BY <1>3, <2>4, BoxShapes
  <2>6. Moves(f, p)
    BY <1>2, <1>5, <2>3, <2>4, <2>5, SearchMoves
  <2>7. /\ ps' = [q \in Proc |-> ps'[q]] /\ \A q \in Proc : IsCommand(ps'[q])
        /\ ps'[p] = f /\ \A q \in Proc \ {p} : ps'[q] = ps[q]
    BY <2>2, <2>3, BecomeShapes
  <2>8. Shapes'
    BY <1>2, <1>4, <2>5, <2>7 DEF StoreInv, Shapes
  <2>9. \A x \in Cont : Calmer(x)
    BY <1>2, <2>4, <2>5 DEF Calmer, Agree
  <2>10. \A q \in Proc : Stays(ps'[q], ps[q]) \/ (q = p /\ Moves(ps'[p], p))
    <3> TAKE q \in Proc
    <3>1. ps[q].c \in Cont
      BY OfCommand
    <3>2. box'[ps[q].c].up = box[ps[q].c].up
      BY <1>5, <2>4, <2>5, <3>1
    <3> QED
      BY <1>2, <2>6, <2>7, <3>2 DEF Stays, Alike
  <2> QED
    BY <2>8, <2>9, <2>10, QuietKeeps
<1> QED
  BY <1>6, <1>7, <1>8

LEMMA ScanDoneKeeps ==
  ASSUME StoreInv, NEW p \in Proc, ScanDone(p)
  PROVE  StoreInv'
<1> DEFINE r == ps[p]
           f == Settle(r, r.cand)
<1>1. r.pc = "scan" /\ r.left = {} /\ Become(p, f) /\ UNCHANGED <<file, edit, box, count>>
  BY DEF ScanDone
<1>2. IsCommand(r) /\ Placed(r) /\ Clear(r) /\ IsConfig(r.cfg)
  BY OfCommand
<1>3. /\ IsCommand(f) /\ f.c = r.c /\ f.cmd = r.cmd /\ f.again = r.again /\ f.over = r.over
      /\ f.cfg.app = r.cfg.app /\ f.cfg.ip = r.cand /\ f.pc = "save" /\ f.ret = "boot"
  <2>1. r.cand \in 0..Size
    BY <1>2 DEF IsCommand
  <2> QED
    BY <1>2, <2>1, Settles DEF Same
<1>4. \A d \in Cont \ {r.c} : ~Holds(d, r.cand)
  BY <1>1, <1>2 DEF Clear
<1>5. Starts(r) /\ box[r.c].up = "down"
  BY <1>1, <1>2 DEF Placed, Booting
<1> HIDE DEF f
<1>6. Moves(f, p)
  BY <1>1, <1>3, <1>4, <1>5, SearchMoves
<1>7. count' \in [cmd : Nat, edit : Nat, reboot : Nat, lost : Nat]
  BY <1>1 DEF StoreInv, Shapes
<1> QED
  BY <1>1, <1>3, <1>6, <1>7, CommandMoves

LEMMA SavedShapes ==
  ASSUME StoreInv, NEW p \in Proc, Saved(p, ps[p])
  PROVE  /\ box' = [d \in Cont |-> box'[d]] /\ \A d \in Cont : IsBox(box'[d])
         /\ \A d \in Cont \ {ps[p].c} : box'[d] = box[d]
         /\ box'[ps[p].c].up = box[ps[p].c].up
         /\ box'[ps[p].c].excused = (box[ps[p].c].excused \/ ps[p].ret = "idle" \/ Looking(p, ps[p].c))
<1> DEFINE r == ps[p]
           t == r.ret = "idle" /\ ~(box[r.c].up = "up" /\ box[r.c].n = r.boot)
           e == box[r.c].excused \/ r.ret = "idle" \/ Looking(p, r.c)
           b == [box[r.c] EXCEPT !.touched = t, !.excused = e]
<1>1. IsBox(box[r.c]) /\ r.c \in Cont
  BY OfCommand
<1>2. t \in BOOLEAN /\ e \in BOOLEAN
  BY DEF Looking
<1>3. box' = [box EXCEPT ![r.c] = b]
  BY <1>1 DEF Saved, StoreInv, Shapes
<1> HIDE DEF t, e
<1>4. IsBox(b) /\ b.up = box[r.c].up /\ b.excused = e
  BY <1>1, <1>2 DEF IsBox
<1> HIDE DEF b
<1>5. /\ box' = [d \in Cont |-> box'[d]] /\ \A d \in Cont : IsBox(box'[d])
      /\ box'[r.c] = b /\ \A d \in Cont \ {r.c} : box'[d] = box[d]
  BY <1>1, <1>3, <1>4, BoxShapes
<1> QED
  BY <1>4, <1>5 DEF e

(* A reset is saved; the command goes on with its other flags.             *)
LEMMA FlagsMove ==
  ASSUME StoreInv, NEW p \in Proc, ps[p].pc \in {"save", "rename"}, box'[ps[p].c].up = box[ps[p].c].up,
         ~ps[p].over /\ file'[ps[p].c] # NoFile => ps[p].cfg.app = file'[ps[p].c].app
  PROVE  IsCommand(Flagged(ps[p])) /\ Moves(Flagged(ps[p]), p)
<1> DEFINE r == ps[p]
           f == Flagged(r)
<1>1. IsCommand(r)
  BY OfCommand
<1>2. \/ f = Idle
      \/ /\ IsCommand(f) /\ Same(f, r) /\ f.pc \in {"begin", "stop"}
         /\ f.cfg.app = r.cfg.app
         /\ f.pc = "begin" => r.cmd = "start" \/ r.again
  BY <1>1, FlagsLead
<1> HIDE DEF f
<1>3. f # Idle => Moves(f, p)
  BY <1>2, LeadMoves DEF Same
<1> QED
  BY <1>2, <1>3, IdleCommand, IdleMoves DEF f

LEMMA SaveKeeps ==
  ASSUME StoreInv, NEW p \in Proc, Save(p)
  PROVE  StoreInv'
<1> DEFINE r == ps[p]
           disk == Serialize(ds_config_load(file[r.c], Zeroed))
<1>1. r.pc = "save" /\ UNCHANGED <<file, edit, count>>
  BY DEF Save
<1>2. /\ IsCommand(r) /\ r.c \in Cont /\ IsConfig(r.cfg) /\ HasLines(r) /\ Placed(r) /\ Clear(r)
      /\ file[r.c] = NoFile \/ IsText(file[r.c])
      /\ Starts(r) => \A q \in Proc \ {p} : ~(Starts(ps[q]) /\ ps[q].c = r.c)
  BY OfCommand
<1>3. count' \in [cmd : Nat, edit : Nat, reboot : Nat, lost : Nat]
  BY <1>1 DEF StoreInv, Shapes
<1>4. CASE Become(p, [r EXCEPT !.pc = "rename"]) /\ UNCHANGED box
  <2> DEFINE f == [r EXCEPT !.pc = "rename"]
  <2>1. /\ IsCommand(f) /\ f.c = r.c /\ f.cmd = r.cmd /\ f.again = r.again /\ f.over = r.over
        /\ f.cfg = r.cfg /\ f.pc = "rename" /\ f.ret = r.ret
    BY <1>2 DEF IsCommand, Pcs
  <2> HIDE DEF f
  <2>2. (Starts(f) <=> Starts(r)) /\ (Booting(f) <=> Booting(r))
    BY <1>1, <2>1 DEF Starts, Booting
  <2>3. f.ret = "boot" /\ f.cfg.mode = "nat" /\ ~box'[f.c].excused => \A d \in Cont \ {f.c} : ~Holds(d, f.cfg.ip)
    BY <1>1, <1>2, <1>4, <2>1 DEF Clear
  <2>4. Booting(f) \/ f.again => Starts(f) /\ box'[f.c].up = "down"
    BY <1>2, <1>4, <2>1, <2>2 DEF Placed
  <2>5. Starts(f) /\ f.cmd = "start" => box'[f.c].up # "boot"
    BY <1>2, <1>4, <2>1, <2>2 DEF Placed
  <2>6. ~f.over /\ file'[f.c] # NoFile => f.cfg.app = file'[f.c].app
    BY <1>1, <1>2, <2>1 DEF HasLines
  <2>7. Moves(f, p)
    BY <1>2, <2>1, <2>2, <2>3, <2>4, <2>5, <2>6 DEF Moves
  <2>8. Become(p, f)
    BY <1>4 DEF f
  <2> QED
    BY <1>1, <1>3, <1>4, <2>1, <2>7, <2>8, CommandMoves
<1>5. CASE /\ file[r.c] # NoFile /\ Known(disk) = Known(Serialize(r.cfg))
           /\ Become(p, Return(r)) /\ (IF r.ret = "boot" THEN Saved(p, r) ELSE UNCHANGED box)
  <2>1. CASE r.ret = "boot"
    <3> DEFINE f == [r EXCEPT !.pc = "boot"]
    <3>1. IsCommand(f)
      BY <1>2 DEF IsCommand, Pcs
    <3>2. Become(p, f)
      BY <1>5, <2>1 DEF Return
    <3>3. /\ ps' = [q \in Proc |-> ps'[q]] /\ \A q \in Proc : IsCommand(ps'[q])
          /\ ps'[p] = f /\ \A q \in Proc \ {p} : ps'[q] = ps[q]
      BY <3>1, <3>2, BecomeShapes
    <3>4. /\ box' = [d \in Cont |-> box'[d]] /\ \A d \in Cont : IsBox(box'[d])
          /\ \A d \in Cont \ {r.c} : box'[d] = box[d]
          /\ box'[r.c].up = box[r.c].up
          /\ box'[r.c].excused = (box[r.c].excused \/ Looking(p, r.c))
      BY <1>5, <2>1, SavedShapes
    <3>5. Shapes'
      BY <1>1, <1>3, <3>3, <3>4 DEF StoreInv, Shapes
    <3>6. Says(file[r.c], r.cfg)
      BY <1>2, <1>5, SkippedSays
    <3>7. ~r.over => r.cfg.app = file[r.c].app
      BY <1>1, <1>2, <1>5 DEF HasLines
    <3>8. \A q \in Proc \ {p} : Alike(ps'[q], ps[q]) /\ (ps[q].over => ps'[q].over)
      BY <3>3 DEF Alike
    <3> QED
      BY <1>1, <2>1, <3>3, <3>4, <3>5, <3>6, <3>7, <3>8, SavedKeeps
  <2>2. CASE r.ret = "flags"
    <3>1. Become(p, Flagged(r)) /\ UNCHANGED box
      BY <1>5, <2>2 DEF Return
    <3>2. IsCommand(Flagged(r)) /\ Moves(Flagged(r), p)
      BY <1>1, <1>2, <3>1, FlagsMove DEF HasLines
    <3> QED
      BY <1>1, <1>3, <3>1, <3>2, CommandMoves
  <2>3. CASE r.ret = "idle"
    <3>1. Become(p, Idle) /\ UNCHANGED box
      BY <1>5, <2>3 DEF Return
    <3> QED
      BY <1>1, <1>3, <3>1, IdleCommand, IdleMoves, CommandMoves
  <2> QED
    BY <1>2, <2>1, <2>2, <2>3 DEF IsCommand
<1> QED
  BY <1>4, <1>5 DEF Save

LEMMA RenameKeeps ==
  ASSUME StoreInv, NEW p \in Proc, Rename(p)
  PROVE  StoreInv'
<1> DEFINE r == ps[p]
           c == r.c
           t == Serialize(r.cfg)
           o == Overtaken(c, {p})
           f == Return(r)
<1>1. /\ r.pc = "rename" /\ file' = [file EXCEPT ![c] = t] /\ ps' = [o EXCEPT ![p] = f]
      /\ IF r.ret = "flags" THEN Touched(c) ELSE Saved(p, r)
      /\ UNCHANGED count
  BY DEF Rename
<1>2. /\ IsCommand(r) /\ c \in Cont /\ IsConfig(r.cfg)
      /\ r.ret \in {"flags", "boot", "idle"}
  <2>1. IsCommand(r) /\ c \in Cont /\ IsConfig(r.cfg)
    BY OfCommand
  <2> QED
    BY <2>1 DEF IsCommand
<1>3. IsText(t) /\ t # NoFile /\ t.app = r.cfg.app /\ Says(t, r.cfg)
  BY <1>2, Serializes, WrittenSays
<1>4. count' \in [cmd : Nat, edit : Nat, reboot : Nat, lost : Nat]
  BY <1>1 DEF StoreInv, Shapes
<1> HIDE DEF t, c
<1>5. /\ file' = [d \in Cont |-> file'[d]] /\ \A d \in Cont : file'[d] = NoFile \/ IsText(file'[d])
      /\ file'[c] = t /\ \A d \in Cont \ {c} : file'[d] = file[d]
  BY <1>1, <1>2, <1>3, FileShapes
<1>6. /\ o = [q \in Proc |-> o[q]]
      /\ \A q \in Proc \ {p} :
           /\ IsCommand(o[q]) /\ Alike(o[q], ps[q]) /\ (ps[q].over => o[q].over)
           /\ ps[q].c = c => o[q].over \/ ps[q].pc = "idle"
  BY OvertakenShapes
<1> HIDE DEF o, f
<1>7. /\ ps' = [q \in Proc |-> ps'[q]] /\ ps'[p] = f
      /\ \A q \in Proc \ {p} :
           /\ IsCommand(ps'[q]) /\ Alike(ps'[q], ps[q]) /\ (ps[q].over => ps'[q].over)
           /\ ps[q].c = c => ps'[q].over \/ ps[q].pc = "idle"
  <2>1. ps' = [o EXCEPT ![p] = f]
    BY <1>1
  <2> QED
    BY <1>6, <2>1
<1>8. /\ box' = [d \in Cont |-> box'[d]] /\ \A d \in Cont : IsBox(box'[d])
      /\ \A d \in Cont \ {c} : box'[d] = box[d]
      /\ box'[c].up = box[c].up
      /\ r.ret # "boot" => box'[c].excused
      /\ r.ret = "boot" => box'[c].excused = (box[c].excused \/ Looking(p, c))
  <2>1. CASE r.ret = "flags"
    BY <1>1, <1>2, <2>1, TouchedShapes
  <2>2. CASE r.ret # "flags"
    BY <1>1, <1>2, <2>2, SavedShapes DEF c
  <2> QED
    BY <2>1, <2>2
<1>9. \A q \in Proc : ps[q].c \in Cont
  BY OfCommand
<1>10. \A q \in Proc \ {p} : file'[ps[q].c] = file[ps[q].c] \/ ps'[q].over \/ ps[q].pc = "idle"
  BY <1>5, <1>7, <1>9
<1>11. c = ps[p].c /\ t = Serialize(ps[p].cfg)
  BY DEF c, t
<1>12. IsCommand(f) => Shapes'
  <2>1. IsCommand(f) => \A q \in Proc : IsCommand(ps'[q])
    BY <1>7
  <2> QED
    BY <1>4, <1>5, <1>7, <1>8, <2>1 DEF Shapes
<1>13. CASE r.ret = "boot"
  <2>1. f = [r EXCEPT !.pc = "boot"]
    BY <1>13 DEF f, Return
  <2>2. IsCommand(f)
    BY <1>2, <2>1 DEF IsCommand, Pcs
  <2>3. \A q \in Proc \ {p} :
          /\ Alike(ps'[q], ps[q]) /\ (ps[q].over => ps'[q].over)
          /\ file'[ps[q].c] = file[ps[q].c] \/ ps'[q].over \/ ps[q].pc = "idle"
    BY <1>7, <1>10
  <2>4. \A d \in Cont \ {ps[p].c} : box'[d] = box[d] /\ file'[d] = file[d]
    BY <1>5, <1>8, <1>11
  <2>5. Says(file'[ps[p].c], ps[p].cfg) /\ ps[p].cfg.app = file'[ps[p].c].app
    BY <1>3, <1>5, <1>11
  <2>6. /\ box'[ps[p].c].up = box[ps[p].c].up
        /\ box'[ps[p].c].excused = (box[ps[p].c].excused \/ Looking(p, ps[p].c))
    BY <1>8, <1>11, <1>13
  <2>7. Shapes' /\ ps'[p] = [ps[p] EXCEPT !.pc = "boot"]
    BY <1>7, <1>12, <2>1, <2>2
  <2> QED
    BY <1>1, <1>13, <2>3, <2>4, <2>5, <2>6, <2>7, SavedKeeps
<1>14. CASE r.ret # "boot"
  <2>1. IsCommand(f) /\ Moves(f, p)
    <3>1. CASE r.ret = "flags"
      <4>1. IsCommand(Flagged(r)) /\ Moves(Flagged(r), p)
        BY <1>1, <1>3, <1>5, <1>8, <1>11, FlagsMove
      <4> QED
        BY <3>1, <4>1 DEF f, Return
    <3>2. CASE r.ret = "idle"
      BY <3>2, IdleCommand, IdleMoves DEF f, Return
    <3> QED
      BY <1>2, <1>14, <3>1, <3>2
  <2>2. \A d \in Cont : Calmer(d)
    BY <1>5, <1>8, <1>14 DEF Calmer, Agree
  <2>3. \A q \in Proc \ {p} : Stays(ps'[q], ps[q])
    BY <1>7, <1>8, <1>9, <1>10 DEF Stays
  <2>4. \A q \in Proc : Stays(ps'[q], ps[q]) \/ (q = p /\ Moves(ps'[p], p))
    BY <1>7, <2>1, <2>3
  <2> QED
    BY <1>12, <2>1, <2>2, <2>4, QuietKeeps
<1> QED
  BY <1>13, <1>14

LEMMA NoRoomKeeps ==
  ASSUME StoreInv, NEW p \in Proc, NoRoom(p)
  PROVE  StoreInv'
<1> DEFINE r == ps[p]
           c == r.c
           o == Overtaken(c, {p})
           g == Return(r)
           f == [g EXCEPT !.over = (g.pc # "idle")]
<1>0. PICK k \in 0..6 : file' = [file EXCEPT ![c] = FirstKeys(Serialize(r.cfg), k)]
  BY DEF NoRoom
<1> DEFINE t == FirstKeys(Serialize(r.cfg), k)
<1>1. /\ r.pc = "rename" /\ file' = [file EXCEPT ![c] = t] /\ ps' = [o EXCEPT ![p] = f]
      /\ Touched(c) /\ Count("lost")
  BY <1>0 DEF NoRoom
<1>2. /\ IsCommand(r) /\ c \in Cont /\ Placed(r) /\ r.ret \in {"flags", "boot", "idle"}
      /\ Starts(r) => \A q \in Proc \ {p} : ~(Starts(ps[q]) /\ ps[q].c = c)
  BY OfCommand DEF IsCommand
<1>3. IsText(t)
  BY OfCommand, Serializes, CutShort
<1>4. count' \in [cmd : Nat, edit : Nat, reboot : Nat, lost : Nat]
  BY <1>1, CountShapes
<1> HIDE DEF t
<1>5. /\ file' = [d \in Cont |-> file'[d]] /\ \A d \in Cont : file'[d] = NoFile \/ IsText(file'[d])
      /\ \A d \in Cont \ {c} : file'[d] = file[d]
  BY <1>1, <1>2, <1>3, FileShapes
<1>6. /\ o = [q \in Proc |-> o[q]]
      /\ \A q \in Proc \ {p} :
           /\ IsCommand(o[q]) /\ Alike(o[q], ps[q]) /\ (ps[q].over => o[q].over)
           /\ ps[q].c = c => o[q].over \/ ps[q].pc = "idle"
  BY OvertakenShapes
<1>7. /\ box' = [d \in Cont |-> box'[d]] /\ \A d \in Cont : IsBox(box'[d])
      /\ \A d \in Cont \ {c} : box'[d] = box[d]
      /\ box'[c].up = box[c].up /\ box'[c].excused
  BY <1>1, <1>2, TouchedShapes
<1>8. IsCommand(f) /\ Moves(f, p)
  <2>1. CASE g = Idle
    <3>1. f = [Idle EXCEPT !.over = FALSE]
      BY <2>1, IdleCommand
    <3> HIDE DEF f, g
    <3>2. Idle.over = FALSE
      BY DEF Idle
    <3>3. \A x : IsCommand(x) /\ x.over = FALSE => [x EXCEPT !.over = FALSE] = x
      BY DEF IsCommand
    <3>4. f = Idle
      BY <3>1, <3>2, <3>3, IdleCommand
    <3> QED
      BY <3>4, IdleCommand, IdleMoves
  <2>2. CASE r.ret = "boot"
    <3>1. f = [r EXCEPT !.pc = "boot", !.over = TRUE]
      BY <1>2, <2>2 DEF Return, IsCommand
    <3> HIDE DEF f
    <3>2. /\ IsCommand(f) /\ f.c = c /\ f.cmd = r.cmd /\ f.again = r.again /\ f.over
          /\ f.pc = "boot"
      BY <1>2, <3>1 DEF IsCommand, Pcs
    <3>3. Starts(r) /\ box[c].up = "down" /\ Starts(f)
      BY <1>1, <1>2, <2>2, <3>2 DEF Placed, Booting, Starts
    <3>4. Moves(f, p)
      BY <1>2, <1>7, <3>2, <3>3 DEF Moves
    <3> QED
      BY <3>2, <3>4
  <2>3. CASE r.ret = "flags" /\ g # Idle
    <3>1. /\ IsCommand(g) /\ Same(g, r) /\ g.pc \in {"begin", "stop"}
          /\ g.pc = "begin" => r.cmd = "start" \/ r.again
      <4>1. g = Flagged(r)
        BY <2>3 DEF Return
      <4> HIDE DEF g
      <4> QED
        BY <1>2, <2>3, <4>1, FlagsLead
    <3> HIDE DEF g
    <3>2. /\ IsCommand(f) /\ f.over /\ f.pc = g.pc /\ f.c = c /\ f.cmd = r.cmd /\ f.again = r.again
      BY <3>1 DEF IsCommand, Same
    <3> HIDE DEF f
    <3>3. Moves(f, p)
      BY <1>1, <1>7, <3>1, <3>2, LeadMoves
    <3> QED
      BY <3>2, <3>3
  <2>4. r.ret = "idle" => g = Idle
    BY DEF Return
  <2> QED
    BY <1>2, <2>1, <2>2, <2>3, <2>4
<1> HIDE DEF o, f
<1>9. /\ ps' = [q \in Proc |-> ps'[q]] /\ ps'[p] = f
      /\ \A q \in Proc \ {p} :
           /\ IsCommand(ps'[q]) /\ Alike(ps'[q], ps[q]) /\ (ps[q].over => ps'[q].over)
           /\ ps[q].c = c => ps'[q].over \/ ps[q].pc = "idle"
  <2>1. ps' = [o EXCEPT ![p] = f]
    BY <1>1
  <2> QED
    BY <1>6, <2>1
<1>10. \A q \in Proc : ps[q].c \in Cont
  BY OfCommand
<1>11. \A q \in Proc \ {p} : Stays(ps'[q], ps[q])
  BY <1>5, <1>7, <1>9, <1>10 DEF Stays
<1>12. \A q \in Proc : Stays(ps'[q], ps[q]) \/ (q = p /\ Moves(ps'[p], p))
  BY <1>8, <1>9, <1>11
<1>13. \A d \in Cont : Calmer(d)
  BY <1>5, <1>7 DEF Calmer, Agree
<1>14. Shapes'
  BY <1>4, <1>5, <1>7, <1>8, <1>9 DEF Shapes
<1> QED
  BY <1>12, <1>13, <1>14, QuietKeeps

LEMMA SaveFailsKeeps ==
  ASSUME StoreInv, NEW p \in Proc, SaveFails(p)
  PROVE  StoreInv'
<1> DEFINE r == ps[p]
           f == IF r.ret = "boot" /\ r.boot # 0 THEN Idle ELSE Return(r)
<1>1. r.pc = "rename" /\ Count("lost") /\ Become(p, f) /\ Touched(r.c) /\ UNCHANGED <<file, edit>>
  BY DEF SaveFails
<1>2. /\ IsCommand(r) /\ r.c \in Cont /\ IsConfig(r.cfg) /\ HasLines(r) /\ Placed(r)
      /\ Starts(r) => \A q \in Proc \ {p} : ~(Starts(ps[q]) /\ ps[q].c = r.c)
  BY OfCommand
<1>3. count' \in [cmd : Nat, edit : Nat, reboot : Nat, lost : Nat]
  BY <1>1, CountShapes
<1>4. /\ box' = [d \in Cont |-> box'[d]] /\ \A d \in Cont : IsBox(box'[d])
      /\ \A d \in Cont \ {r.c} : box'[d] = box[d]
      /\ box'[r.c].up = box[r.c].up /\ box'[r.c].excused
  BY <1>1, <1>2, TouchedShapes
<1>5. IsCommand(f) /\ Moves(f, p)
  <2>1. CASE r.ret = "boot"
    <3> DEFINE b == [r EXCEPT !.pc = "boot"]
    <3>1. f = Idle \/ f = b
      BY <2>1 DEF Return
    <3>2. /\ IsCommand(b) /\ b.c = r.c /\ b.cmd = r.cmd /\ b.again = r.again /\ b.over = r.over
          /\ b.cfg = r.cfg /\ b.pc = "boot"
      BY <1>2 DEF IsCommand, Pcs
    <3> HIDE DEF b
    <3>3. Starts(r) /\ box[r.c].up = "down" /\ Starts(b)
      BY <1>1, <1>2, <2>1, <3>2 DEF Placed, Booting, Starts
    <3>4. ~b.over /\ file'[b.c] # NoFile => b.cfg.app = file'[b.c].app
      BY <1>1, <1>2, <3>2 DEF HasLines
    <3>5. Moves(b, p)
      BY <1>2, <1>4, <3>2, <3>3, <3>4 DEF Moves
    <3> QED
      BY <3>1, <3>2, <3>5, IdleCommand, IdleMoves
  <2>2. CASE r.ret = "flags"
    <3>1. ~r.over /\ file'[r.c] # NoFile => r.cfg.app = file'[r.c].app
      BY <1>1, <1>2 DEF HasLines
    <3>2. IsCommand(Flagged(r)) /\ Moves(Flagged(r), p)
      BY <1>1, <1>4, <3>1, FlagsMove
    <3> QED
      BY <2>2, <3>2 DEF Return
  <2>3. CASE r.ret = "idle"
    BY <2>3, IdleCommand, IdleMoves DEF Return
  <2> QED
    BY <1>2, <2>1, <2>2, <2>3 DEF IsCommand
<1> HIDE DEF f
<1>6. /\ ps' = [q \in Proc |-> ps'[q]] /\ \A q \in Proc : IsCommand(ps'[q])
      /\ ps'[p] = f /\ \A q \in Proc \ {p} : ps'[q] = ps[q]
  BY <1>1, <1>5, BecomeShapes
<1>7. Shapes'
  BY <1>1, <1>3, <1>4, <1>6 DEF StoreInv, Shapes
<1>8. \A d \in Cont : Calmer(d)
  BY <1>1, <1>4 DEF Calmer, Agree
<1>9. \A q \in Proc : ps[q].c \in Cont
  BY OfCommand
<1>10. \A q \in Proc : Stays(ps'[q], ps[q]) \/ (q = p /\ Moves(ps'[p], p))
  BY <1>1, <1>4, <1>5, <1>6, <1>9 DEF Stays, Alike
<1> QED
  BY <1>7, <1>8, <1>10, QuietKeeps

(* A step of one container, which is excused or keeps what it has, or comes*)
(* up with the configuration of the command that boots it.                 *)
Carries(c, b) ==
  b.excused \/ /\ ~box[c].excused
               /\ \/ box[c].up # "down" /\ Agree(b.cfg, box[c].cfg)
                  \/ \E q \in Proc : ps[q].pc = "boot" /\ ps[q].c = c /\ Agree(b.cfg, ps[q].cfg)

(* What the commands about it rely on.                                     *)
Bears(c, b, r) ==
  Starts(r) /\ r.c = c => /\ box[c].up = "down" => b.up = "down"
                          /\ r.cmd = "start" /\ box[c].up # "boot" => b.up # "boot"

LEMMA BoxMoves ==
  ASSUME StoreInv, NEW c \in Cont, NEW b, IsBox(b), box' = [box EXCEPT ![c] = b], Carries(c, b),
         UNCHANGED file, count' \in [cmd : Nat, edit : Nat, reboot : Nat, lost : Nat],
         ps' = [q \in Proc |-> ps'[q]], \A q \in Proc : IsCommand(ps'[q]),
         NEW m, \A q \in Proc : \/ ps'[q] = ps[q] /\ Bears(c, b, ps[q])
                                \/ q = m /\ Moves(ps'[m], m)
  PROVE  StoreInv'
<1>1. /\ box' = [d \in Cont |-> box'[d]] /\ \A d \in Cont : IsBox(box'[d])
      /\ box'[c] = b /\ \A d \in Cont \ {c} : box'[d] = box[d]
  BY BoxShapes
<1>2. Shapes'
  BY <1>1 DEF StoreInv, Shapes
<1>3. \A d \in Cont : Calmer(d)
  BY <1>1 DEF Calmer, Carries, Agree
<1>4. ASSUME NEW q \in Proc, ps'[q] = ps[q], Bears(c, b, ps[q])
      PROVE  Stays(ps'[q], ps[q])
  <2>1. ps[q].c \in Cont
    BY OfCommand
  <2> QED
    BY <1>1, <1>4, <2>1 DEF Stays, Alike, Bears
<1>5. \A q \in Proc : Stays(ps'[q], ps[q]) \/ (q = m /\ Moves(ps'[m], m))
  BY <1>4
<1> QED
  BY <1>2, <1>3, <1>5, QuietKeeps

LEMMA BootKeeps ==
  ASSUME StoreInv, NEW p \in Proc, Boot(p)
  PROVE  StoreInv'
<1> DEFINE r == ps[p]
           x == AsFresh(r)
           n == box[r.c].n + 1
           b == [box[r.c] EXCEPT !.up = "boot", !.n = n, !.cfg = r.cfg, !.snap = NoFile, !.fresh = x]
<1>1. r.pc = "boot" /\ Become(p, Idle) /\ UNCHANGED <<file, edit, count>>
  BY DEF Boot, Exit
<1>2. /\ r.c \in Cont /\ IsConfig(r.cfg) /\ Placed(r) /\ IsBox(box[r.c])
      /\ Starts(r) => \A q \in Proc \ {p} : ~(Starts(ps[q]) /\ ps[q].c = r.c)
  BY OfCommand
<1>3. box' = [box EXCEPT ![r.c] = b]
  BY DEF Boot
<1>4. n \in Nat
  BY <1>2 DEF IsBox
<1> HIDE DEF x, n
<1>5. IsBox(b) /\ b.excused = box[r.c].excused /\ b.cfg = r.cfg
  BY <1>2, <1>4 DEF IsBox
<1>6. Starts(r)
  BY <1>1, <1>2 DEF Placed, Booting
<1>7. count' \in [cmd : Nat, edit : Nat, reboot : Nat, lost : Nat] /\ Agree(r.cfg, r.cfg)
  BY <1>1 DEF StoreInv, Shapes, Agree
<1> HIDE DEF b
<1>8. /\ ps' = [q \in Proc |-> ps'[q]] /\ \A q \in Proc : IsCommand(ps'[q])
      /\ ps'[p] = Idle /\ \A q \in Proc \ {p} : ps'[q] = ps[q]
  BY <1>1, IdleCommand, BecomeShapes
<1>9. Carries(r.c, b)
  BY <1>1, <1>5, <1>7 DEF Carries
<1>10. \A q \in Proc : \/ ps'[q] = ps[q] /\ Bears(r.c, b, ps[q])
                       \/ q = p /\ Moves(ps'[p], p)
  BY <1>2, <1>6, <1>8, IdleMoves DEF Bears
<1> QED
  BY <1>1, <1>2, <1>3, <1>5, <1>7, <1>8, <1>9, <1>10, BoxMoves

LEMMA StopKeeps ==
  ASSUME StoreInv, NEW p \in Proc, Stop(p)
  PROVE  StoreInv'
<1> DEFINE r == ps[p]
           b == [Down EXCEPT !.n = box[r.c].n]
           f == IF r.cmd = "restart" THEN [r EXCEPT !.pc = "reload"] ELSE Idle
<1>1. r.pc = "stop" /\ UNCHANGED <<file, edit, count>>
  BY DEF Stop
<1>2. /\ IsCommand(r) /\ r.c \in Cont /\ IsBox(box[r.c])
      /\ Starts(r) => \A q \in Proc \ {p} : ~(Starts(ps[q]) /\ ps[q].c = r.c)
  BY OfCommand
<1>3. count' \in [cmd : Nat, edit : Nat, reboot : Nat, lost : Nat]
  BY <1>1 DEF StoreInv, Shapes
<1>4. CASE Become(p, Idle) /\ UNCHANGED box
  BY <1>1, <1>3, <1>4, IdleCommand, IdleMoves, CommandMoves
<1>5. CASE Become(p, f) /\ box' = [box EXCEPT ![r.c] = b]
  <2>1. IsBox(b) /\ b.up = "down" /\ b.excused
    BY <1>2, KnownConfigs DEF IsBox, Down
  <2>2. box'[r.c] = b
    BY <1>2, <1>5, <2>1, BoxShapes
  <2> HIDE DEF b
  <2>3. IsCommand(f) /\ Moves(f, p)
    <3> DEFINE g == [r EXCEPT !.pc = "reload"]
    <3>1. /\ IsCommand(g) /\ g.c = r.c /\ g.cmd = r.cmd /\ g.pc = "reload"
      BY <1>2 DEF IsCommand, Pcs
    <3> HIDE DEF g
    <3>2. CASE r.cmd = "restart"
      <4>1. Starts(r) /\ Starts(g) /\ ~Booting(g)
        BY <1>1, <3>1, <3>2 DEF Starts, Booting
      <4>2. Moves(g, p)
        BY <1>2, <2>1, <2>2, <3>1, <3>2, <4>1 DEF Moves
      <4> QED
        BY <3>1, <3>2, <4>2 DEF g
    <3>3. CASE r.cmd # "restart"
      BY <3>3, IdleCommand, IdleMoves
    <3> QED
      BY <3>2, <3>3
  <2> HIDE DEF f
  <2>4. /\ ps' = [q \in Proc |-> ps'[q]] /\ \A q \in Proc : IsCommand(ps'[q])
        /\ ps'[p] = f /\ \A q \in Proc \ {p} : ps'[q] = ps[q]
    BY <1>5, <2>3, BecomeShapes
  <2>5. Carries(r.c, b)
    BY <2>1 DEF Carries
  <2>6. \A q \in Proc : \/ ps'[q] = ps[q] /\ Bears(r.c, b, ps[q])
                        \/ q = p /\ Moves(ps'[p], p)
    BY <2>1, <2>3, <2>4 DEF Bears
  <2> QED
    BY <1>1, <1>2, <1>3, <1>5, <2>1, <2>4, <2>5, <2>6, BoxMoves
<1> QED
  BY <1>4, <1>5 DEF Stop, Exit

(* A container's init writes its marker, its snapshot and its name.        *)
LEMMA InitKeeps ==
  ASSUME StoreInv, NEW c \in Cont, Mark(c) \/ Snapshot(c) \/ Name(c)
  PROVE  StoreInv'
<1>1. IsBox(box[c])
  BY DEF StoreInv, Shapes
<1>2. IsConfig(box[c].cfg)
  BY <1>1 DEF IsBox
<1>3. PICK b : /\ box' = [box EXCEPT ![c] = b] /\ IsBox(b) /\ b.cfg = box[c].cfg
               /\ b.excused = box[c].excused /\ b.up \notin {"down", "boot"}
  <2>1. CASE Mark(c)
    <3> DEFINE b == [box[c] EXCEPT !.up = "marked"]
    <3>1. IsBox(b) /\ b.cfg = box[c].cfg /\ b.excused = box[c].excused /\ b.up = "marked"
      BY <1>1 DEF IsBox
    <3>2. box' = [box EXCEPT ![c] = b]
      BY <2>1 DEF Mark, InitStep
    <3> QED
      BY <3>1, <3>2
  <2>2. CASE Snapshot(c)
    <3> DEFINE t == Serialize(box[c].cfg)
               b == [box[c] EXCEPT !.up = "saved", !.snap = t]
    <3>1. IsText(t)
      BY <1>2, Serializes
    <3>2. box' = [box EXCEPT ![c] = b]
      BY <2>2 DEF Snapshot, InitStep
    <3> HIDE DEF t
    <3>3. IsBox(b) /\ b.cfg = box[c].cfg /\ b.excused = box[c].excused /\ b.up = "saved"
      BY <1>1, <3>1 DEF IsBox
    <3> QED
      BY <3>2, <3>3
  <2>3. CASE Name(c)
    <3> DEFINE b == [box[c] EXCEPT !.up = "up"]
    <3>1. IsBox(b) /\ b.cfg = box[c].cfg /\ b.excused = box[c].excused /\ b.up = "up"
      BY <1>1 DEF IsBox
    <3>2. box' = [box EXCEPT ![c] = b]
      BY <2>3 DEF Name, InitStep
    <3> QED
      BY <3>1, <3>2
  <2> QED
    BY <2>1, <2>2, <2>3
<1>4. UNCHANGED <<file, ps, count>> /\ box[c].up # "down"
  BY DEF Mark, Snapshot, Name, InitStep
<1>5. /\ count' \in [cmd : Nat, edit : Nat, reboot : Nat, lost : Nat]
      /\ ps' = [q \in Proc |-> ps'[q]] /\ \A q \in Proc : IsCommand(ps'[q])
  BY <1>4 DEF StoreInv, Shapes
<1>6. Carries(c, b)
  BY <1>1, <1>3, <1>4 DEF Carries, Agree, IsBox
<1>7. \A q \in Proc : ps'[q] = ps[q] /\ Bears(c, b, ps[q])
  BY <1>3, <1>4 DEF Bears
<1> QED
  BY <1>3, <1>4, <1>5, <1>6, <1>7, BoxMoves

(* A reboot loads the file that said what runs over what runs.             *)
LEMMA RebootKeeps ==
  ASSUME StoreInv, NEW c \in Cont, Reboot(c)
  PROVE  StoreInv'
<1> DEFINE old == [box[c].cfg EXCEPT !.binds = {}]
           k == ds_config_load(file[c], old)
           n == box[c].n + 1
           b == [box[c] EXCEPT !.up = "boot", !.n = n, !.snap = NoFile, !.cfg = k]
<1>1. /\ box[c].up = "up" /\ UNCHANGED <<file, ps>> /\ box' = [box EXCEPT ![c] = b]
      /\ \A p \in Proc : ps[p].pc # "idle" /\ ps[p].c = c => ps[p].cmd # "start"
  BY DEF Reboot, StoreInv, Shapes
<1>2. IsBox(box[c]) /\ (file[c] = NoFile \/ IsText(file[c]))
  BY DEF StoreInv, Shapes
<1>3. IsConfig(old) /\ old.mode = box[c].cfg.mode /\ old.ip = box[c].cfg.ip
  BY <1>2 DEF IsBox, IsConfig, Shaped
<1> HIDE DEF old
<1>4. IsConfig(k)
  BY <1>2, <1>3, Loads
<1>5. Says(file[c], box[c].cfg) => Agree(k, box[c].cfg)
  <2>1. Zeroed.mode = "host" /\ Zeroed.ip = 0 /\ IsConfig(Zeroed)
    BY KnownConfigs DEF Zeroed, Default
  <2>2. file[c] # NoFile =>
          /\ k.mode = IF file[c].mode = "absent" THEN box[c].cfg.mode ELSE file[c].mode
          /\ k.ip = IF file[c].ip \in Addr THEN file[c].ip ELSE box[c].cfg.ip
          /\ ds_config_load(file[c], Zeroed).mode = IF file[c].mode = "absent" THEN "host" ELSE file[c].mode
          /\ ds_config_load(file[c], Zeroed).ip = IF file[c].ip \in Addr THEN file[c].ip ELSE 0
    BY <1>2, <1>3, <2>1, Loads
  <2> HIDE DEF k
  <2> QED
    BY <2>2 DEF Says, Agree
<1> HIDE DEF k
<1>6. n \in Nat
  BY <1>2 DEF IsBox
<1> HIDE DEF n
<1>7. IsBox(b) /\ b.cfg = k /\ b.excused = box[c].excused /\ b.up = "boot"
  BY <1>2, <1>4, <1>6 DEF IsBox
<1> HIDE DEF b
<1>8. Carries(c, b)
  BY <1>1, <1>2, <1>5, <1>7 DEF StoreInv, Written, Carries, IsBox
<1>9. /\ count' \in [cmd : Nat, edit : Nat, reboot : Nat, lost : Nat]
      /\ ps' = [q \in Proc |-> ps'[q]] /\ \A q \in Proc : IsCommand(ps'[q])
  BY <1>1, CountShapes DEF Reboot, StoreInv, Shapes
<1>10. \A q \in Proc : ps'[q] = ps[q] /\ Bears(c, b, ps[q])
  BY <1>1, <1>7 DEF Bears, Starts
<1> QED
  BY <1>1, <1>7, <1>8, <1>9, <1>10, BoxMoves

LEMMA EditKeeps ==
  ASSUME StoreInv, NEW c \in Cont, EditOpens(c) \/ EditWrites(c) \/ FileLost(c)
  PROVE  StoreInv'
<1>1. CASE EditOpens(c)
  BY <1>1, CountShapes, KnownConfigs, FileChanges DEF EditOpens
<1>2. CASE FileLost(c)
  BY <1>2, CountShapes, FileChanges DEF FileLost
<1>3. CASE EditWrites(c)
  <2>1. count' \in [cmd : Nat, edit : Nat, reboot : Nat, lost : Nat]
    BY <1>3 DEF EditWrites, StoreInv, Shapes
  <2>2. CASE edit[c] = "open"
    <3>1. PICK t \in Texts : file' = [file EXCEPT ![c] = [t EXCEPT !.app = count.edit + 1]]
      BY <1>3, <2>2 DEF EditWrites
    <3>2. IsText([t EXCEPT !.app = count.edit + 1])
      BY <3>1, KnownTexts
    <3>3. ps' = Overtaken(c, {}) /\ Touched(c)
      BY <1>3, <2>2 DEF EditWrites
    <3> QED
      BY <2>1, <3>1, <3>2, <3>3, FileChanges
  <2>3. CASE edit[c] # "open"
    <3>1. UNCHANGED <<file, ps, box, count>>
      BY <1>3, <2>3 DEF EditWrites
    <3> QED
      BY <3>1 DEF StoreInv, Shapes, IsCommand, Control, Lines, HasLines, Written, Apart, Clear,
                  Holds, Placed, Starts, Booting
  <2> QED
    BY <2>2, <2>3
<1> QED
  BY <1>1, <1>2, <1>3

-----------------------------------------------------------------------------
(***************************************************************************)
(* The theorems.                                                           *)
(***************************************************************************)
LEMMA StoreInit == Init => StoreInv
<1> SUFFICES ASSUME Init PROVE StoreInv
  OBVIOUS
<1>1. /\ file \in [Cont -> Texts \cup {NoFile}] /\ ps = [p \in Proc |-> Idle]
      /\ box = [c \in Cont |-> Down] /\ count \in Budgets
  BY DEF Init
<1>2. IsBox(Down) /\ Down.up = "down" /\ Down.excused
  BY KnownConfigs DEF IsBox, Down
<1>3. \A c \in Cont : file[c] = NoFile \/ IsText(file[c])
  BY <1>1, KnownTexts
<1>4. Shapes
  BY <1>1, <1>2, <1>3, IdleCommand, ConfigAssumption DEF Shapes
<1>5. \A p \in Proc : ps[p] = Idle
  BY <1>1
<1>6. \A c \in Cont : box[c] = Down
  BY <1>1
<1>7. Control
  BY <1>5, IdleCommand DEF Control, Placed
<1>8. Lines
  BY <1>5, IdleCommand DEF Lines, HasLines
<1>9. Written
  BY <1>2, <1>5, <1>6, IdleCommand DEF Written
<1>10. \A c \in Cont : \A a : ~Holds(c, a)
  BY <1>2, <1>6 DEF Holds
<1>11. Apart
  BY <1>5, <1>10, IdleCommand DEF Apart, Clear
<1> QED
  BY <1>4, <1>7, <1>8, <1>9, <1>11 DEF StoreInv

LEMMA StoreStep == StoreInv /\ [Next]_vars => StoreInv'
<1> SUFFICES ASSUME StoreInv, [Next]_vars PROVE StoreInv'
  OBVIOUS
<1>1. CASE UNCHANGED vars
  BY <1>1 DEF vars, StoreInv, Shapes, IsCommand, Control, Lines, HasLines, Written, Apart, Clear,
              Holds, Placed, Starts, Booting
<1>2. ASSUME NEW p \in Proc,
             \/ Begin(p) \/ Load(p) \/ StartRootfs(p) \/ ScanFile(p)
             \/ ScanDone(p) \/ Save(p) \/ Rename(p) \/ NoRoom(p) \/ SaveFails(p) \/ Killed(p)
             \/ Boot(p) \/ Stop(p) \/ Reload(p) \/ Sync(p)
      PROVE  StoreInv'
  BY <1>2, BeginKeeps, LoadKeeps, StartRootfsKeeps, ScanFileKeeps, ScanDoneKeeps, SaveKeeps, RenameKeeps,
     NoRoomKeeps, SaveFailsKeeps, KilledKeeps, BootKeeps, StopKeeps, ReloadKeeps, SyncKeeps
<1>3. ASSUME NEW c \in Cont,
             \/ Mark(c) \/ Snapshot(c) \/ Name(c) \/ Reboot(c)
             \/ EditOpens(c) \/ EditWrites(c) \/ FileLost(c)
      PROVE  StoreInv'
  BY <1>3, InitKeeps, RebootKeeps, EditKeeps
<1> QED
  BY <1>1, <1>2, <1>3 DEF Next

(* Whatever files, flags and edits: commands that start have their         *)
(* container to themselves and down, they carry the file's unknown lines   *)
(* unless the file was changed behind them, the file says what is booted,  *)
(* and an address that was looked up and saved is held once.               *)
THEOREM StoreInvariant == Spec => []StoreInv
<1> QED
  BY StoreInit, StoreStep, PTL DEF Spec

(* Two containers that run in NAT mode have different addresses, unless two*)
(* starts looked for one at the same time, or a file was edited, lost, not *)
(* or not wholly written, or recovered: ds_net_resolve_static_ip, for any number of       *)
(* containers and commands and a subnet of any size.                       *)
THEOREM AddressesApart == Spec => []AddressUnique
<1>1. StoreInv => AddressUnique
  <2> SUFFICES ASSUME StoreInv, NEW c \in Cont, NEW d \in Cont, c # d,
                      box[c].up # "down", box[d].up # "down",
                      box[c].cfg.mode = "nat", box[d].cfg.mode = "nat", box[c].cfg.ip = box[d].cfg.ip,
                      ~box[c].excused, ~box[d].excused
               PROVE  FALSE
    BY DEF AddressUnique
  <2>1. box[c].cfg.ip \in 0..Size
    BY DEF StoreInv, Shapes, IsBox, IsConfig
  <2>2. Holds(c, box[c].cfg.ip) /\ Holds(d, box[c].cfg.ip)
    BY DEF Holds
  <2> QED
    BY <2>1, <2>2 DEF StoreInv, Apart
<1> QED
  BY <1>1, StoreInvariant, PTL

(* A save never loses the lines of the application that its command loaded,*)
(* whatever the command does to the rest of the file, unless the disk is   *)
(* full.                                                                   *)
THEOREM LinesKept == Spec => AppKept
<1>1. StoreInv /\ [Next]_vars =>
        [\A p \in Proc :
           LET c == ps[p].c IN
           ps[p].pc = "rename" /\ ps'[p].pc # "rename" /\ ~ps[p].over /\ file[c] # NoFile =>
             file'[c].app = file[c].app \/ NoRoom(p)]_vars
  <2> SUFFICES ASSUME StoreInv, Next, NEW p \in Proc, ps[p].pc = "rename", ps'[p].pc # "rename",
                      ~ps[p].over, file[ps[p].c] # NoFile, ~NoRoom(p)
               PROVE  file'[ps[p].c].app = file[ps[p].c].app
    OBVIOUS
  <2>1. /\ IsCommand(ps[p]) /\ ps[p].c \in Cont /\ IsConfig(ps[p].cfg) /\ ps[p].cfg.app = file[ps[p].c].app
    BY OfCommand DEF HasLines
  <2>2. CASE Rename(p)
    <3>1. Serialize(ps[p].cfg).app = ps[p].cfg.app
      BY <2>1, Serializes
    <3> HIDE DEF Serialize
    <3>2. file'[ps[p].c] = Serialize(ps[p].cfg)
      BY <2>1, <2>2 DEF Rename, StoreInv, Shapes
    <3> QED
      BY <2>1, <3>1, <3>2
  <2>3. CASE UNCHANGED file
    BY <2>3
  <2>4. ASSUME NEW q \in Proc, q # p, Rename(q) \/ NoRoom(q) PROVE FALSE
    <3>1. Alike(Overtaken(ps[q].c, {q})[p], ps[p])
      BY OvertakenShapes
    <3>2. ps'[p] = Overtaken(ps[q].c, {q})[p]
      BY <2>4 DEF Rename, NoRoom, Overtaken
    <3> QED
      BY <3>1, <3>2 DEF Alike
  <2>5. ASSUME NEW c \in Cont, EditOpens(c) \/ EditWrites(c) \/ FileLost(c), ~UNCHANGED file PROVE FALSE
    <3>1. Alike(Overtaken(c, {})[p], ps[p])
      BY OvertakenShapes
    <3>2. ps' = Overtaken(c, {})
      BY <2>5 DEF EditOpens, EditWrites, FileLost
    <3> QED
      BY <3>1, <3>2 DEF Alike
  <2>6. \/ UNCHANGED file \/ (\E q \in Proc : Rename(q) \/ NoRoom(q))
        \/ \E c \in Cont : EditOpens(c) \/ EditWrites(c) \/ FileLost(c)
    BY DEF Next, Begin, Load, StartRootfs, ScanFile, ScanDone, Save, SaveFails, Killed, Boot, Stop,
       Reload, Sync, Mark, Snapshot, Name, InitStep, Reboot
  <2> QED
    BY <2>2, <2>3, <2>4, <2>5, <2>6
<1> QED
  BY <1>1, StoreInvariant, PTL DEF Spec, AppKept

-----------------------------------------------------------------------------
(***************************************************************************)
(* Adding port forwards, for lists of any length.  The induction is over   *)
(* the set of indices at which a statement fails, which has a least one.   *)
(***************************************************************************)
LEMMA LeastIndex ==
  ASSUME NEW T \in SUBSET Nat, T # {}
  PROVE  \E n \in T : \A m \in T : n <= m
<1> DEFINE Less == {s \in Nat \X Nat : s[1] < s[2]}
<1>1. IsWellFoundedOn(Less, Nat)
  <2>1. OpToRel(<, Nat) = Less
    BY DEF OpToRel
  <2> QED
    BY <2>1, NatLessThanWellFounded, Zenon
<1>2. PICK n \in T : \A m \in T : <<m, n>> \notin Less
  BY <1>1, WFMin, Zenon
<1>3. ASSUME NEW m \in T
      PROVE  n <= m
  <2>1. <<m, n>> \in Less <=> m < n
    OBVIOUS
  <2> QED
    BY <1>2, <2>1
<1> QED
  BY <1>3

(* A forward that is skipped: no room, or malformed, or in the way of one  *)
(* that is there.                                                          *)
Refused(s, f) == ~(Len(s) < MaxForward) \/ ~Wellformed(f) \/ \E k \in 1..Len(s) : Clash(s[k], f)

Added(s, f) == IF Refused(s, f) THEN s ELSE Append(s, f)

Good(s) ==
  /\ s \in Seq(Forward) /\ Len(s) <= MaxForward
  /\ \A i \in 1..Len(s) : Wellformed(s[i])
  /\ \A i, j \in 1..Len(s) : i # j => ~Clash(s[i], s[j])

Upto(g, have, more, n) == g = [i \in 0..n |-> IF i = 0 THEN have ELSE Added(g[i - 1], more[i])]

LEMMA UptoExists ==
  ASSUME NEW have, NEW more, NEW n \in Nat
  PROVE  \E g : Upto(g, have, more, n)
<1> DEFINE T == {k \in Nat : ~ \E g : Upto(g, have, more, k)}
<1>1. SUFFICES ASSUME T # {} PROVE FALSE
  OBVIOUS
<1>2. PICK k \in T : \A m \in T : k <= m
  BY <1>1, LeastIndex
<1>3. CASE k = 0
  <2>1. Upto([i \in 0..0 |-> have], have, more, 0)
    BY DEF Upto
  <2> QED
    BY <1>3, <2>1
<1>4. CASE k # 0
  <2>1. k \in Nat /\ k - 1 \in Nat /\ k - 1 \notin T
    BY <1>2, <1>4
  <2>2. PICK g : Upto(g, have, more, k - 1)
    BY <2>1
  <2> DEFINE h == [i \in 0..k |-> IF i = k THEN Added(g[k - 1], more[k]) ELSE g[i]]
  <2>3. \A i \in 0..k : h[i] = IF i = 0 THEN have ELSE Added(h[i - 1], more[i])
    BY <2>1, <2>2, <1>4 DEF Upto
  <2>4. Upto(h, have, more, k)
    BY <2>3 DEF Upto
  <2> QED
    BY <2>4
<1> QED
  BY <1>3, <1>4

(* AddForwards takes one forward of the list after the other. *)
LEMMA OneByOne ==
  ASSUME NEW have \in Seq(Forward), NEW more \in Seq(Forward)
  PROVE  \E g : /\ g[0] = have /\ AddForwards(have, more) = g[Len(more)]
                /\ \A i \in 1..Len(more) : g[i] = Added(g[i - 1], more[i])
<1> DEFINE h == CHOOSE g : Upto(g, have, more, Len(more))
<1>0. Len(more) \in Nat
  OBVIOUS
<1>1. Upto(h, have, more, Len(more))
  BY <1>0, UptoExists
<1>2. \A s, m : Added(s, m) = IF Len(s) < MaxForward /\ Wellformed(m) /\ \A k \in 1..Len(s) : ~Clash(s[k], m)
                             THEN Append(s, m) ELSE s
  BY DEF Added, Refused
<1>3. AddForwards(have, more) = h[Len(more)]
  BY <1>2 DEF AddForwards, Upto
<1> HIDE DEF h
<1>4. h[0] = have /\ \A i \in 1..Len(more) : h[i] = Added(h[i - 1], more[i])
  BY <1>0, <1>1 DEF Upto
<1> QED
  BY <1>3, <1>4

(* What holds of the list that is there, and is kept by every addition,    *)
(* holds of the result.                                                    *)
LEMMA AddedStays ==
  ASSUME NEW have \in Seq(Forward), NEW more \in Seq(Forward), NEW S, have \in S,
         \A s \in S : \A i \in 1..Len(more) : Added(s, more[i]) \in S
  PROVE  AddForwards(have, more) \in S
<1>1. PICK g : /\ g[0] = have /\ AddForwards(have, more) = g[Len(more)]
               /\ \A i \in 1..Len(more) : g[i] = Added(g[i - 1], more[i])
  BY OneByOne
<1> DEFINE T == {n \in Nat : n <= Len(more) /\ g[n] \notin S}
<1>2. T = {}
  <2>1. SUFFICES ASSUME T # {} PROVE FALSE
    OBVIOUS
  <2>2. PICK n \in T : \A m \in T : n <= m
    BY <2>1, LeastIndex
  <2>3. n \in 1..Len(more) /\ g[n - 1] \in S
    BY <1>1, <2>2
  <2> QED
    BY <1>1, <2>2, <2>3
<1> QED
  BY <1>1, <1>2

LEMMA ClashEither ==
  ASSUME NEW f \in Forward, NEW h \in Forward
  PROVE  Clash(f, h) <=> Clash(h, f)
BY DEF Clash, Overlap

(* A forward is in its own way: no duplicates. *)
LEMMA ClashItself ==
  ASSUME NEW f \in Forward
  PROVE  Clash(f, f)
BY PortAssumption DEF Clash, Overlap

LEMMA AddedGood ==
  ASSUME NEW s, Good(s), NEW f \in Forward
  PROVE  Good(Added(s, f))
<1>1. CASE Refused(s, f)
  BY <1>1 DEF Added
<1>2. CASE ~Refused(s, f)
  <2> DEFINE a == Append(s, f)
  <2>1. Added(s, f) = a
    BY <1>2 DEF Added
  <2>2. /\ s \in Seq(Forward) /\ Len(s) \in Nat
        /\ a \in Seq(Forward) /\ Len(a) = Len(s) + 1 /\ a[Len(a)] = f
        /\ \A i \in 1..Len(s) : a[i] = s[i] /\ s[i] \in Forward
    BY DEF Good
  <2> HIDE DEF a
  <2>3. Len(a) <= MaxForward /\ Wellformed(f) /\ \A k \in 1..Len(s) : ~Clash(s[k], f) /\ ~Clash(f, s[k])
    BY <1>2, <2>2, ClashEither, ConfigAssumption DEF Refused
  <2>4. \A i \in 1..Len(a) : Wellformed(a[i])
    BY <2>2, <2>3 DEF Good
  <2>5. ASSUME NEW i \in 1..Len(a), NEW j \in 1..Len(a), i # j
        PROVE  ~Clash(a[i], a[j])
    <3>1. CASE i = Len(a)
      BY <2>2, <2>3, <2>5, <3>1
    <3>2. CASE j = Len(a)
      BY <2>2, <2>3, <2>5, <3>2
    <3>3. CASE i # Len(a) /\ j # Len(a)
      BY <2>2, <2>5, <3>3 DEF Good
    <3> QED
      BY <3>1, <3>2, <3>3
  <2> QED
    BY <2>1, <2>2, <2>3, <2>4, <2>5 DEF Good
<1> QED
  BY <1>1, <1>2

LEMMA GoodAlready ==
  /\ Good(<<>>)
  /\ \A s : Good(s) => s \in Seq(Forward)
BY ConfigAssumption DEF Good

LEMMA AddForwardsGood ==
  ASSUME NEW have, Good(have), NEW more \in Seq(Forward)
  PROVE  Good(AddForwards(have, more))
<1> DEFINE S == {s \in Seq(Forward) : Good(s)}
<1>1. have \in S
  BY DEF Good
<1>2. \A s \in S : \A i \in 1..Len(more) : Added(s, more[i]) \in S
  <2> TAKE s \in S
  <2> TAKE i \in 1..Len(more)
  <2>1. Good(Added(s, more[i]))
    BY AddedGood
  <2> QED
    BY <2>1, GoodAlready
<1> HIDE DEF S
<1>3. AddForwards(have, more) \in S
  BY <1>1, <1>2, AddedStays, GoodAlready
<1> QED
  BY <1>3 DEF S

(* No list to add. *)
LEMMA AddNothing ==
  ASSUME NEW have \in Seq(Forward)
  PROVE  AddForwards(have, <<>>) = have
<1>1. <<>> \in Seq(Forward) /\ Len(<<>>) = 0
  OBVIOUS
<1>2. PICK g : /\ g[0] = have /\ AddForwards(have, <<>>) = g[Len(<<>>)]
               /\ \A i \in 1..Len(<<>>) : g[i] = Added(g[i - 1], <<>>[i])
  BY <1>1, OneByOne, Zenon
<1> QED
  BY <1>1, <1>2

(* Once a forward was added or skipped it is skipped ever after. *)
LEMMA RefusedAfter ==
  ASSUME NEW s, Good(s), NEW f \in Forward, NEW h \in Forward
  PROVE  Refused(Added(s, f), f) /\ (Refused(s, h) => Refused(Added(s, f), h))
<1>1. CASE Refused(s, f)
  BY <1>1 DEF Added
<1>2. CASE ~Refused(s, f)
  <2> DEFINE a == Append(s, f)
  <2>1. Added(s, f) = a
    BY <1>2 DEF Added
  <2>2. /\ s \in Seq(Forward) /\ Len(s) \in Nat /\ Len(a) = Len(s) + 1 /\ a[Len(a)] = f
        /\ \A i \in 1..Len(s) : a[i] = s[i]
    BY DEF Good
  <2> HIDE DEF a
  <2>3. Refused(a, f)
    BY <2>2, ClashItself DEF Refused
  <2>4. Refused(s, h) => Refused(a, h)
    BY <2>2, ConfigAssumption DEF Refused
  <2> QED
    BY <2>1, <2>3, <2>4
<1> QED
  BY <1>1, <1>2

(* Adding the same list a second time changes nothing: a reboot loads the  *)
(* file over the configuration that was loaded from it.                    *)
LEMMA AddAgain ==
  ASSUME NEW have, Good(have), NEW more \in Seq(Forward)
  PROVE  AddForwards(AddForwards(have, more), more) = AddForwards(have, more)
<1>1. have \in Seq(Forward)
  BY GoodAlready
<1>2. PICK g : /\ g[0] = have /\ AddForwards(have, more) = g[Len(more)]
               /\ \A i \in 1..Len(more) : g[i] = Added(g[i - 1], more[i])
  BY <1>1, OneByOne
<1> DEFINE Done(n) == Good(g[n]) /\ \A j \in 1..n : Refused(g[n], more[j])
           T == {n \in Nat : n <= Len(more) /\ ~Done(n)}
<1>3. T = {}
  <2>1. SUFFICES ASSUME T # {} PROVE FALSE
    OBVIOUS
  <2>2. PICK n \in T : \A m \in T : n <= m
    BY <2>1, LeastIndex
  <2>3. n \in 1..Len(more) /\ n - 1 \in 0..Len(more) /\ n - 1 \notin T
    BY <1>2, <2>2
  <2>4. Done(n - 1) /\ g[n] = Added(g[n - 1], more[n]) /\ \A j \in 1..n : more[j] \in Forward
    BY <1>2, <2>3
  <2>5. Good(g[n])
    BY <2>3, <2>4, AddedGood
  <2>6. \A j \in 1..n : Refused(g[n], more[j])
    <3> TAKE j \in 1..n
    <3>1. CASE j = n
      BY <2>3, <2>4, <3>1, RefusedAfter
    <3>2. CASE j # n
      <4>1. j \in 1..(n - 1)
        BY <2>3, <3>2
      <4> QED
        BY <2>3, <2>4, <4>1, RefusedAfter
    <3> QED
      BY <3>1, <3>2
  <2> QED
    BY <2>2, <2>5, <2>6
<1>4. Done(Len(more))
  BY <1>3
<1> DEFINE S == {g[Len(more)]}
<1>5. \A s \in S : \A i \in 1..Len(more) : Added(s, more[i]) \in S
  BY <1>4 DEF Added
<1>6. g[Len(more)] \in Seq(Forward)
  BY <1>4, GoodAlready
<1> QED
  BY <1>2, <1>5, <1>6, AddedStays

(* A list that was written is read back as it was. *)
LEMMA AddGood ==
  ASSUME NEW s, Good(s)
  PROVE  AddForwards(<<>>, s) = s
<1>1. s \in Seq(Forward) /\ Len(s) \in Nat /\ <<>> \in Seq(Forward)
  BY DEF Good
<1>2. PICK g : /\ g[0] = <<>> /\ AddForwards(<<>>, s) = g[Len(s)]
               /\ \A i \in 1..Len(s) : g[i] = Added(g[i - 1], s[i])
  BY <1>1, OneByOne
<1> DEFINE Done(n) == g[n] \in Seq(Forward) /\ Len(g[n]) = n /\ \A j \in 1..n : g[n][j] = s[j]
           T == {n \in Nat : n <= Len(s) /\ ~Done(n)}
<1>3. T = {}
  <2>1. SUFFICES ASSUME T # {} PROVE FALSE
    OBVIOUS
  <2>2. PICK n \in T : \A m \in T : n <= m
    BY <2>1, LeastIndex
  <2>3. n \in 1..Len(s) /\ n - 1 \in 0..Len(s) /\ n - 1 \notin T
    <3>1. Done(0)
      BY <1>2
    <3> QED
      BY <2>2, <3>1
  <2> DEFINE x == g[n - 1]
  <2>4. /\ x \in Seq(Forward) /\ Len(x) = n - 1 /\ (\A j \in 1..(n - 1) : x[j] = s[j])
        /\ g[n] = Added(x, s[n]) /\ s[n] \in Forward
    BY <1>1, <1>2, <2>3
  <2> HIDE DEF x
  <2>5. ~Refused(x, s[n])
    <3>1. Len(s) <= MaxForward /\ Wellformed(s[n]) /\ Len(s) \in Nat /\ MaxForward \in Nat
      BY <2>3, ConfigAssumption DEF Good
    <3>2. \A k \in 1..(n - 1) : k \in 1..Len(s) /\ k # n
      BY <2>3, <3>1
    <3>3. \A k \in 1..(n - 1) : ~Clash(s[k], s[n])
      BY <2>3, <3>2 DEF Good
    <3>4. \A k \in 1..Len(x) : ~Clash(x[k], s[n])
      BY <2>4, <3>3
    <3>5. Len(x) < MaxForward
      BY <2>3, <2>4, <3>1
    <3> QED
      BY <3>1, <3>4, <3>5 DEF Refused
  <2>6. g[n] = Append(x, s[n])
    BY <2>4, <2>5 DEF Added
  <2>7. Append(x, s[n]) \in Seq(Forward) /\ Len(Append(x, s[n])) = n
        /\ \A j \in 1..n : Append(x, s[n])[j] = s[j]
    BY <2>3, <2>4
  <2> QED
    BY <2>2, <2>6, <2>7
<1>4. Done(Len(s))
  BY <1>1, <1>3
<1> QED
  BY <1>1, <1>2, <1>4

-----------------------------------------------------------------------------
(***************************************************************************)
(* The second invariant: what a configuration that is held, written or     *)
(* booted has to do with the file, the snapshot and the flags.             *)
(***************************************************************************)
(* Two configurations are written alike, but for the unknown lines. *)
Matches(x, y) == Known(Serialize(x)) = Known(Serialize(y))

(* The next start would load this configuration. *)
Agrees(t, cfg) == t # NoFile /\ (t.mode # "absent" => Matches(ds_config_load(t, Default), cfg))

(* They differ in what a start settles later, or keeps. *)
Like(x, y) == x.mode = y.mode /\ x.limit = y.limit /\ x.ports = y.ports /\ x.binds = y.binds

Sound(cfg) == cfg \in Config /\ Good(cfg.ports)

IsFile(t) == t = NoFile \/ t \in Text

(* A command that loaded the snapshot of a container that still runs. *)
Follows(r) == box[r.c].up = "up" /\ r.boot = box[r.c].n => Matches(r.cfg, box[r.c].cfg)

Runs(r) ==
  /\ Sound(r.cfg) /\ IsFile(r.asked)
  /\ r.boot <= box[r.c].n
  /\ r.boot = box[r.c].n /\ r.boot # 0 => box[r.c].up \in {"up", "down"}
  /\ r.pc = "stop" /\ r.args = Plain => Follows(r)
  /\ r.pc \in {"save", "rename"} /\ r.ret = "idle" => Follows(r)
  /\ r.pc \in {"save", "rename"} /\ r.ret = "flags" => r.args.reset /\ Like(r.cfg, Default)
  /\ r.pc = "begin" \/ Booting(r) => AsFresh(r)
  /\ r.pc = "boot" /\ ~box[r.c].touched => Agrees(file[r.c], r.cfg)

Kept(c) ==
  /\ IsFile(file[c])
  /\ Sound(box[c].cfg) /\ box[c].fresh = TRUE
  /\ box[c].snap = IF box[c].up \in {"saved", "up"} THEN Serialize(box[c].cfg) ELSE NoFile
  /\ box[c].up # "down" => box[c].n # 0
  /\ box[c].up # "down" /\ ~box[c].touched => Agrees(file[c], box[c].cfg)

RunInv ==
  /\ edit \in [Cont -> {"none", "open", "orphan"}]
  /\ \A p \in Proc : Runs(ps[p])
  /\ \A c \in Cont : Kept(c)

LEMMA LimitsAreNat ==
  ASSUME NEW n \in {t.limit : t \in Texts} \cup {0}
  PROVE  n \in Nat
BY ConfigAssumption

LEMMA TextIsText ==
  ASSUME NEW t \in Text
  PROVE  IsText(t) /\ t # NoFile
<1>1. IsText(t)
  BY DEF Text, IsText, Shaped
<1> QED
  BY <1>1, TextIsFile

LEMMA SoundIsConfig ==
  ASSUME NEW cfg, Sound(cfg)
  PROVE  IsConfig(cfg) /\ cfg.root \in BOOLEAN /\ cfg.limit \in Nat /\ Good(cfg.ports)
<1>1. cfg.limit \in Nat
  BY LimitsAreNat DEF Sound, Config
<1> QED
  BY <1>1 DEF Sound, Config, IsConfig, Shaped

LEMMA SoundDefault ==
  /\ Sound(Default) /\ Sound(Zeroed)
  /\ IsFile(NoFile) /\ IsFile(Empty)
<1>1. Good(<<>>) /\ 0 \in 0..Size /\ <<>> \in Seq(Forward)
  BY GoodAlready, ConfigAssumption
<1>2. Default \in Config
  BY <1>1 DEF Default, Config
<1>3. Zeroed \in Config
  BY <1>1 DEF Default, Zeroed, Config
<1>4. Empty \in Text
  BY <1>1 DEF Default, Empty, Text
<1>5. Default.ports = <<>> /\ Zeroed.ports = <<>>
  BY DEF Default, Zeroed
<1> QED
  BY <1>1, <1>2, <1>3, <1>4, <1>5 DEF Sound, IsFile

LEMMA EditedText ==
  ASSUME NEW t \in Texts, NEW n \in Nat
  PROVE  t \in Text /\ [t EXCEPT !.app = n] \in Text
<1>1. t \in [root : BOOLEAN, mode : {"host", "nat"}, limit : Nat, ports : Seq(Forward),
             ip : Addr \cup {0, Bad}, binds : SUBSET Bind, app : {0}]
  BY ConfigAssumption
<1>2. Addr \subseteq 0..Size /\ 0 \in 0..Size /\ t.limit \in {x.limit : x \in Texts}
  BY ConfigAssumption DEF Addr
<1> QED
  BY <1>1, <1>2 DEF Text

LEMMA LoadSound ==
  ASSUME NEW cfg, Sound(cfg), NEW t, IsFile(t)
  PROVE  /\ Sound(ds_config_load(t, cfg))
         /\ t = NoFile => ds_config_load(t, cfg) = cfg
         /\ t # NoFile =>
              /\ ds_config_load(t, cfg).root = (cfg.root \/ t.root)
              /\ ds_config_load(t, cfg).mode = IF t.mode = "absent" THEN cfg.mode ELSE t.mode
              /\ ds_config_load(t, cfg).limit = IF t.limit > 0 THEN t.limit ELSE cfg.limit
              /\ ds_config_load(t, cfg).ports = AddForwards(cfg.ports, t.ports)
              /\ ds_config_load(t, cfg).ip = IF t.ip \in Addr THEN t.ip ELSE cfg.ip
              /\ ds_config_load(t, cfg).binds = cfg.binds \cup t.binds
<1>1. CASE t = NoFile
  BY <1>1 DEF ds_config_load
<1>2. CASE t # NoFile
  <2>1. ds_config_load(t, cfg)
          = [root  |-> cfg.root \/ t.root,
             mode  |-> IF t.mode = "absent" THEN cfg.mode ELSE t.mode,
             limit |-> IF t.limit > 0 THEN t.limit ELSE cfg.limit,
             ports |-> AddForwards(cfg.ports, t.ports),
             ip    |-> IF t.ip \in Addr THEN t.ip ELSE cfg.ip,
             binds |-> cfg.binds \cup t.binds,
             app   |-> t.app]
    BY <1>2 DEF ds_config_load
  <2>2. t \in Text /\ cfg \in Config /\ Good(cfg.ports)
    BY <1>2 DEF IsFile, Sound
  <2>3. Addr \subseteq 0..Size
    BY ConfigAssumption DEF Addr
  <2> DEFINE a == AddForwards(cfg.ports, t.ports)
  <2>4. Good(a) /\ a \in Seq(Forward)
    BY <2>2, AddForwardsGood, GoodAlready DEF Text
  <2> HIDE DEF a
  <2>5. /\ (cfg.root \/ t.root) \in BOOLEAN
        /\ (IF t.mode = "absent" THEN cfg.mode ELSE t.mode) \in {"host", "nat"}
        /\ (IF t.limit > 0 THEN t.limit ELSE cfg.limit) \in {x.limit : x \in Texts} \cup {0}
        /\ (IF t.ip \in Addr THEN t.ip ELSE cfg.ip) \in 0..Size
        /\ cfg.binds \cup t.binds \in SUBSET Bind /\ t.app \in Nat
    <3>1. /\ cfg.mode \in {"host", "nat"} /\ t.mode \in {"host", "nat", "absent"}
          /\ cfg.limit \in {x.limit : x \in Texts} \cup {0}
          /\ t.limit \in {x.limit : x \in Texts} \cup {0}
          /\ cfg.ip \in 0..Size /\ cfg.binds \in SUBSET Bind /\ t.binds \in SUBSET Bind /\ t.app \in Nat
      BY <2>2 DEF Config, Text
    <3> QED
      BY <2>3, <3>1
  <2>6. ds_config_load(t, cfg) \in Config /\ ds_config_load(t, cfg).ports = a
    BY <2>1, <2>4, <2>5 DEF Config, a
  <2> QED
    BY <1>2, <2>1, <2>4, <2>6 DEF Sound
<1> QED
  BY <1>1, <1>2

LEMMA SerializeFile ==
  ASSUME NEW cfg, Sound(cfg)
  PROVE  /\ Serialize(cfg) \in Text /\ IsFile(Serialize(cfg))
         /\ Serialize(cfg) # NoFile
         /\ Serialize(cfg).root = cfg.root /\ Serialize(cfg).mode = cfg.mode
         /\ Serialize(cfg).mode # "absent"
         /\ Serialize(cfg).limit = cfg.limit /\ Serialize(cfg).binds = cfg.binds
         /\ Serialize(cfg).ports = IF cfg.mode = "nat" THEN cfg.ports ELSE <<>>
         /\ Serialize(cfg).ip = IF cfg.mode = "nat" THEN cfg.ip ELSE 0
<1>1. cfg \in Config
  BY DEF Sound
<1>2. 0 \in 0..Size /\ <<>> \in Seq(Forward)
  BY ConfigAssumption
<1>3. /\ Serialize(cfg) \in Text
      /\ Serialize(cfg).root = cfg.root /\ Serialize(cfg).mode = cfg.mode
      /\ Serialize(cfg).mode # "absent"
      /\ Serialize(cfg).limit = cfg.limit /\ Serialize(cfg).binds = cfg.binds
      /\ Serialize(cfg).ports = IF cfg.mode = "nat" THEN cfg.ports ELSE <<>>
      /\ Serialize(cfg).ip = IF cfg.mode = "nat" THEN cfg.ip ELSE 0
  BY <1>1, <1>2 DEF Config, Text, Serialize
<1> QED
  BY <1>3, TextIsText DEF IsFile

(* What is written of a configuration, but for the unknown lines. *)
Writes(z) == [root |-> z.root, mode |-> z.mode, limit |-> z.limit,
              ports |-> IF z.mode = "nat" THEN z.ports ELSE <<>>,
              ip |-> IF z.mode = "nat" THEN z.ip ELSE 0, binds |-> z.binds, app |-> 0]

LEMMA KnownWrites ==
  ASSUME NEW z, IsConfig(z)
  PROVE  Known(Serialize(z)) = Writes(z)
<1>1. z \in [root : {z.root}, mode : {z.mode}, limit : {z.limit}, ports : {z.ports},
             ip : {z.ip}, binds : {z.binds}, app : {z.app}]
  BY DEF IsConfig, Shaped
<1> DEFINE s == [root |-> z.root, mode |-> z.mode, limit |-> z.limit,
                 ports |-> IF z.mode = "nat" THEN z.ports ELSE <<>>,
                 ip |-> IF z.mode = "nat" THEN z.ip ELSE 0, binds |-> z.binds, app |-> z.app]
<1>2. Serialize(z) = s
  <2>1. CASE z.mode = "nat"
    <3>1. Serialize(z) = [z EXCEPT !.ports = z.ports, !.ip = z.ip]
      BY <2>1 DEF Serialize
    <3> QED
      BY <1>1, <2>1, <3>1
  <2>2. CASE z.mode # "nat"
    <3>1. Serialize(z) = [z EXCEPT !.ports = <<>>, !.ip = 0]
      BY <2>2 DEF Serialize
    <3> QED
      BY <1>1, <2>2, <3>1
  <2> QED
    BY <2>1, <2>2
<1>3. Known(Serialize(z)) = [s EXCEPT !.app = 0]
  BY <1>2 DEF Known
<1>4. [s EXCEPT !.app = 0] = Writes(z)
  BY DEF Writes
<1> QED
  BY <1>3, <1>4

(* What is compared. *)
LEMMA MatchesIff ==
  ASSUME NEW x, NEW y, IsConfig(x), IsConfig(y)
  PROVE  Matches(x, y) <=>
           /\ x.root = y.root /\ x.mode = y.mode /\ x.limit = y.limit /\ x.binds = y.binds
           /\ x.mode = "nat" => x.ports = y.ports /\ x.ip = y.ip
<1> DEFINE K(z) == [root |-> z.root, mode |-> z.mode, limit |-> z.limit,
                    ports |-> IF z.mode = "nat" THEN z.ports ELSE <<>>,
                    ip |-> IF z.mode = "nat" THEN z.ip ELSE 0, binds |-> z.binds, app |-> 0]
<1>1. \A z : IsConfig(z) => Known(Serialize(z)) = K(z)
  BY KnownWrites DEF Writes
<1>2. Matches(x, y) <=> K(x) = K(y)
  BY <1>1 DEF Matches
<1>3. /\ K(x).root = x.root /\ K(x).mode = x.mode /\ K(x).limit = x.limit /\ K(x).binds = x.binds
      /\ x.mode = "nat" => K(x).ports = x.ports /\ K(x).ip = x.ip
      /\ K(y).root = y.root /\ K(y).mode = y.mode /\ K(y).limit = y.limit /\ K(y).binds = y.binds
      /\ y.mode = "nat" => K(y).ports = y.ports /\ K(y).ip = y.ip
  OBVIOUS
<1>4. K(x) = K(y) => /\ x.root = y.root /\ x.mode = y.mode /\ x.limit = y.limit /\ x.binds = y.binds
                     /\ x.mode = "nat" => x.ports = y.ports /\ x.ip = y.ip
  <2> HIDE DEF K
  <2> QED
    BY <1>3
<1>5. ASSUME x.root = y.root, x.mode = y.mode, x.limit = y.limit, x.binds = y.binds,
             x.mode = "nat" => x.ports = y.ports /\ x.ip = y.ip
      PROVE  K(x) = K(y)
  BY <1>5
<1> QED
  BY <1>2, <1>4, <1>5

(* A file that was just written, laid over any configuration that holds    *)
(* nothing yet. *)
LEMMA ReadBack ==
  ASSUME NEW cfg, Sound(cfg)
  PROVE  /\ Matches(ds_config_load(Serialize(cfg), Default), cfg)
         /\ Matches(ds_config_load(Serialize(cfg), Zeroed), cfg)
         /\ Agrees(Serialize(cfg), cfg)
<1> DEFINE t == Serialize(cfg)
<1>1. /\ IsFile(t) /\ t # NoFile /\ t.root = cfg.root /\ t.mode = cfg.mode /\ t.mode # "absent"
      /\ t.limit = cfg.limit /\ t.binds = cfg.binds
      /\ t.ports = IF cfg.mode = "nat" THEN cfg.ports ELSE <<>>
      /\ t.ip = IF cfg.mode = "nat" THEN cfg.ip ELSE 0
  BY SerializeFile
<1>2. IsConfig(cfg) /\ cfg.root \in BOOLEAN /\ cfg.limit \in Nat /\ Good(cfg.ports) /\ cfg.ip \in 0..Size
  BY SoundIsConfig DEF IsConfig
<1>3. AddForwards(<<>>, cfg.ports) = cfg.ports
  BY <1>2, AddGood
<1>4. cfg.ip \in Addr \/ cfg.ip = 0
  BY <1>2, ConfigAssumption DEF Addr
<1> HIDE DEF t
<1>5. ASSUME NEW z, Sound(z), z.root = FALSE, z.limit = 0, z.ports = <<>>, z.ip = 0, z.binds = {}
      PROVE  Matches(ds_config_load(t, z), cfg)
  <2> DEFINE k == ds_config_load(t, z)
  <2>1. Sound(k) /\ k.root = (z.root \/ t.root) /\ k.mode = t.mode
        /\ k.limit = (IF t.limit > 0 THEN t.limit ELSE z.limit)
        /\ k.ports = AddForwards(z.ports, t.ports)
        /\ k.ip = (IF t.ip \in Addr THEN t.ip ELSE z.ip) /\ k.binds = z.binds \cup t.binds
    BY <1>1, <1>5, LoadSound
  <2> HIDE DEF k
  <2>2. IsConfig(k)
    BY <2>1, SoundIsConfig
  <2>3. /\ k.root = cfg.root /\ k.mode = cfg.mode /\ k.limit = cfg.limit /\ k.binds = cfg.binds
        /\ k.mode = "nat" => k.ports = cfg.ports /\ k.ip = cfg.ip
    BY <1>1, <1>2, <1>3, <1>4, <1>5, <2>1
  <2> QED
    BY <1>2, <2>2, <2>3, MatchesIff DEF k
<1>6. Matches(ds_config_load(t, Default), cfg) /\ Matches(ds_config_load(t, Zeroed), cfg)
  BY <1>5, SoundDefault DEF Default, Zeroed
<1> QED
  BY <1>1, <1>6 DEF Agrees, t

(* A file that is not written because it says so already. *)
LEMMA NeedNotWrite ==
  ASSUME NEW cfg, Sound(cfg), NEW t, IsFile(t), t # NoFile,
         Known(Serialize(ds_config_load(t, Zeroed))) = Known(Serialize(cfg))
  PROVE  Agrees(t, cfg)
<1> SUFFICES ASSUME t.mode # "absent" PROVE Matches(ds_config_load(t, Default), cfg)
  BY DEF Agrees
<1> DEFINE z == ds_config_load(t, Zeroed)
           k == ds_config_load(t, Default)
<1>1. /\ Default.root = Zeroed.root /\ Default.limit = Zeroed.limit /\ Default.ports = Zeroed.ports
      /\ Default.ip = Zeroed.ip /\ Default.binds = Zeroed.binds
  BY DEF Default, Zeroed
<1>2. /\ Sound(k) /\ Sound(z) /\ k.root = z.root /\ k.mode = z.mode /\ k.limit = z.limit
      /\ k.ports = z.ports /\ k.ip = z.ip /\ k.binds = z.binds
  <2>1. Sound(k) /\ Sound(z)
    BY LoadSound, SoundDefault
  <2>2. k.root = z.root /\ k.mode = z.mode /\ k.limit = z.limit
    <3>1. k.root = (Default.root \/ t.root) /\ k.mode = t.mode
          /\ k.limit = IF t.limit > 0 THEN t.limit ELSE Default.limit
      BY LoadSound, SoundDefault
    <3>2. z.root = (Zeroed.root \/ t.root) /\ z.mode = t.mode
          /\ z.limit = IF t.limit > 0 THEN t.limit ELSE Zeroed.limit
      BY LoadSound, SoundDefault
    <3> HIDE DEF k, z
    <3> QED
      BY <1>1, <3>1, <3>2
  <2>3. /\ k.ports = AddForwards(Default.ports, t.ports) /\ z.ports = AddForwards(Zeroed.ports, t.ports)
        /\ k.ip = (IF t.ip \in Addr THEN t.ip ELSE Default.ip)
        /\ z.ip = (IF t.ip \in Addr THEN t.ip ELSE Zeroed.ip)
        /\ k.binds = Default.binds \cup t.binds /\ z.binds = Zeroed.binds \cup t.binds
    BY LoadSound, SoundDefault
  <2> QED
    BY <1>1, <2>1, <2>2, <2>3
<1>3. Matches(z, cfg)
  BY DEF Matches
<1> HIDE DEF z, k
<1>4. Matches(k, cfg)
  BY <1>2, <1>3, SoundIsConfig, MatchesIff
<1> QED
  BY <1>4 DEF k

(* An inner reboot loads the file over what was booted from it.            *)
LEMMA LoadedOver ==
  ASSUME NEW cfg, Sound(cfg), NEW t, IsFile(t), Agrees(t, cfg)
  PROVE  Agrees(t, ds_config_load(t, [cfg EXCEPT !.binds = {}]))
<1> SUFFICES ASSUME t.mode # "absent"
             PROVE  Matches(ds_config_load(t, Default), ds_config_load(t, [cfg EXCEPT !.binds = {}]))
  BY DEF Agrees
<1> DEFINE d == ds_config_load(t, Default)
           o == [cfg EXCEPT !.binds = {}]
           k == ds_config_load(t, o)
<1>1. t # NoFile /\ Matches(d, cfg) /\ t \in Text
  BY DEF Agrees, IsFile
<1>2. Sound(o) /\ o.root = cfg.root /\ o.limit = cfg.limit /\ o.ports = cfg.ports /\ o.ip = cfg.ip /\ o.binds = {}
  BY DEF Sound, Config
<1>3. Default.root = FALSE /\ Default.limit = 0 /\ Default.ports = <<>> /\ Default.ip = 0 /\ Default.binds = {}
  BY DEF Default
<1>4. /\ Sound(d) /\ d.root = (Default.root \/ t.root) /\ d.mode = t.mode
      /\ d.limit = (IF t.limit > 0 THEN t.limit ELSE Default.limit)
      /\ d.ports = AddForwards(Default.ports, t.ports)
      /\ d.ip = (IF t.ip \in Addr THEN t.ip ELSE Default.ip) /\ d.binds = Default.binds \cup t.binds
  <2>1. Sound(d) /\ d.root = (Default.root \/ t.root) /\ d.mode = t.mode
    BY <1>1, SoundDefault, LoadSound
  <2>2. /\ d.limit = (IF t.limit > 0 THEN t.limit ELSE Default.limit)
        /\ d.ports = AddForwards(Default.ports, t.ports)
    BY <1>1, SoundDefault, LoadSound
  <2>3. d.ip = (IF t.ip \in Addr THEN t.ip ELSE Default.ip) /\ d.binds = Default.binds \cup t.binds
    BY <1>1, SoundDefault, LoadSound
  <2> HIDE DEF d
  <2> QED
    BY <2>1, <2>2, <2>3
<1> HIDE DEF o
<1>5. /\ Sound(k) /\ k.root = (o.root \/ t.root) /\ k.mode = t.mode
      /\ k.limit = (IF t.limit > 0 THEN t.limit ELSE o.limit)
      /\ k.ports = AddForwards(o.ports, t.ports)
      /\ k.ip = (IF t.ip \in Addr THEN t.ip ELSE o.ip) /\ k.binds = o.binds \cup t.binds
  <2>1. Sound(k) /\ k.root = (o.root \/ t.root) /\ k.mode = t.mode
    BY <1>1, <1>2, LoadSound
  <2>2. /\ k.limit = (IF t.limit > 0 THEN t.limit ELSE o.limit)
        /\ k.ports = AddForwards(o.ports, t.ports)
    BY <1>1, <1>2, LoadSound
  <2>3. k.ip = (IF t.ip \in Addr THEN t.ip ELSE o.ip) /\ k.binds = o.binds \cup t.binds
    BY <1>1, <1>2, LoadSound
  <2> HIDE DEF k
  <2> QED
    BY <2>1, <2>2, <2>3
<1> HIDE DEF d, k
<1>6. /\ d.root = cfg.root /\ d.mode = cfg.mode /\ d.limit = cfg.limit /\ d.binds = cfg.binds
      /\ d.mode = "nat" => d.ports = cfg.ports /\ d.ip = cfg.ip
  BY <1>1, <1>4, SoundIsConfig, MatchesIff
<1>7. AddForwards(AddForwards(<<>>, t.ports), t.ports) = AddForwards(<<>>, t.ports)
  BY <1>1, AddAgain, GoodAlready DEF Text
<1>8. /\ d.root = k.root /\ d.mode = k.mode /\ d.limit = k.limit /\ d.binds = k.binds
      /\ d.mode = "nat" => d.ports = k.ports /\ d.ip = k.ip
  <2>1. t.root \in BOOLEAN
    BY <1>1 DEF Text
  <2> QED
    BY <1>2, <1>3, <1>4, <1>5, <1>6, <1>7, <2>1
<1>9. Matches(d, k)
  BY <1>4, <1>5, <1>8, SoundIsConfig, MatchesIff
<1> QED
  BY <1>9 DEF d, k, o

LEMMA Agreeing ==
  ASSUME NEW t, NEW x, NEW y, Agrees(t, x), Matches(x, y)
  PROVE  Agrees(t, y)
BY DEF Agrees, Matches

-----------------------------------------------------------------------------
(***************************************************************************)
(* Flags.                                                                  *)
(***************************************************************************)
LEMMA FlagsSound ==
  ASSUME NEW cfg, Sound(cfg), NEW args \in Arg
  PROVE  LET w == WithFlags(args, cfg) IN
         /\ Sound(w)
         /\ w.root = (cfg.root \/ args.root) /\ w.limit = cfg.limit /\ w.binds = cfg.binds
         /\ w.mode = IF args.mode = "keep" THEN cfg.mode ELSE args.mode
         /\ w.ports = AddForwards(cfg.ports, args.ports)
         /\ w.ip = IF args.ip = 0 THEN cfg.ip ELSE args.ip
<1> DEFINE w == WithFlags(args, cfg)
           a == AddForwards(cfg.ports, args.ports)
<1>1. args \in [reset : BOOLEAN, root : BOOLEAN, mode : {"keep", "host", "nat"},
                ports : Seq(Forward), ip : Addr \cup {0}]
  BY ConfigAssumption
<1>2. args.ip \in 0..Size
  BY <1>1, ConfigAssumption DEF Addr
<1>3. Good(a) /\ a \in Seq(Forward) /\ cfg \in Config
  <2>1. Good(cfg.ports) /\ cfg \in Config
    BY DEF Sound
  <2> QED
    BY <1>1, <2>1, AddForwardsGood, GoodAlready
<1>4. w = [cfg EXCEPT !.root = cfg.root \/ args.root,
                      !.mode = IF args.mode = "keep" THEN cfg.mode ELSE args.mode,
                      !.ports = a, !.ip = IF args.ip = 0 THEN cfg.ip ELSE args.ip]
  BY DEF WithFlags
<1> HIDE DEF w, a
<1>5. /\ w.root = (cfg.root \/ args.root) /\ w.limit = cfg.limit /\ w.binds = cfg.binds
      /\ w.mode = IF args.mode = "keep" THEN cfg.mode ELSE args.mode
      /\ w.ports = a /\ w.ip = IF args.ip = 0 THEN cfg.ip ELSE args.ip
  BY <1>3, <1>4 DEF Config
<1>6. w \in Config
  BY <1>1, <1>2, <1>3, <1>4 DEF Config
<1> QED
  BY <1>3, <1>5, <1>6 DEF Sound, w, a

LEMMA OthersSound ==
  ASSUME NEW cfg, Sound(cfg)
  PROVE  /\ Sound(enforce_nat_safety(cfg))
         /\ enforce_nat_safety(cfg).root = cfg.root /\ enforce_nat_safety(cfg).mode = cfg.mode
         /\ enforce_nat_safety(cfg).limit = cfg.limit /\ enforce_nat_safety(cfg).binds = cfg.binds
         /\ enforce_nat_safety(cfg).ip = cfg.ip
         /\ cfg.mode = "nat" => enforce_nat_safety(cfg).ports = cfg.ports
         /\ Matches(enforce_nat_safety(cfg), cfg)
         /\ Sound(ds_config_reset_defaults(cfg)) /\ Like(ds_config_reset_defaults(cfg), Default)
<1> DEFINE e == enforce_nat_safety(cfg)
           d == ds_config_reset_defaults(cfg)
<1>1. cfg \in Config /\ Good(cfg.ports) /\ Good(<<>>) /\ <<>> \in Seq(Forward)
  BY GoodAlready DEF Sound
<1>2. /\ e \in Config /\ e.root = cfg.root /\ e.mode = cfg.mode /\ e.limit = cfg.limit
      /\ e.binds = cfg.binds /\ e.ip = cfg.ip
      /\ e.ports = IF cfg.mode = "nat" THEN cfg.ports ELSE <<>>
  BY <1>1 DEF Config, enforce_nat_safety
<1>3. Default \in Config /\ Default.ports = <<>>
  BY SoundDefault DEF Sound, Default
<1>4. d = [Default EXCEPT !.root = cfg.root, !.app = cfg.app]
  BY DEF ds_config_reset_defaults
<1>5. d \in Config /\ d.ports = <<>> /\ Like(d, Default)
  <2> HIDE DEF d
  <2> QED
    BY <1>1, <1>3, <1>4 DEF Config, Like
<1> HIDE DEF e, d
<1>6. Sound(e) /\ Sound(d)
  BY <1>1, <1>2, <1>5 DEF Sound
<1>7. Matches(e, cfg)
  BY <1>2, <1>6, SoundIsConfig, MatchesIff
<1> QED
  BY <1>2, <1>5, <1>6, <1>7 DEF e, d

LEMMA NoFlags ==
  ASSUME NEW cfg, Sound(cfg)
  PROVE  Matches(WithFlags(Plain, cfg), cfg)
<1> DEFINE w == WithFlags(Plain, cfg)
<1>1. Plain \in Arg /\ Plain.root = FALSE /\ Plain.mode = "keep" /\ Plain.ports = <<>> /\ Plain.ip = 0
  BY ConfigAssumption DEF Plain
<1>2. /\ Sound(w) /\ w.root = (cfg.root \/ Plain.root) /\ w.limit = cfg.limit /\ w.binds = cfg.binds
      /\ w.mode = (IF Plain.mode = "keep" THEN cfg.mode ELSE Plain.mode)
      /\ w.ports = AddForwards(cfg.ports, Plain.ports)
      /\ w.ip = IF Plain.ip = 0 THEN cfg.ip ELSE Plain.ip
  BY <1>1, FlagsSound
<1> HIDE DEF w
<1>3. IsConfig(w) /\ IsConfig(cfg) /\ cfg.root \in BOOLEAN /\ cfg.ports \in Seq(Forward)
  BY <1>2, SoundIsConfig, GoodAlready
<1>4. AddForwards(cfg.ports, <<>>) = cfg.ports
  BY <1>3, AddNothing
<1>5. Matches(w, cfg)
  BY <1>1, <1>2, <1>3, <1>4, MatchesIff
<1> QED
  BY <1>5 DEF w

-----------------------------------------------------------------------------
(***************************************************************************)
(* What a fresh start would boot.                                          *)
(***************************************************************************)
Basis(r) == IF r.args.reset THEN [Default EXCEPT !.root = ds_config_load(r.asked, Default).root]
                            ELSE ds_config_load(r.asked, Default)

LEMMA BasisSound ==
  ASSUME NEW r, IsFile(r.asked)
  PROVE  Sound(Basis(r))
<1>1. Sound(ds_config_load(r.asked, Default))
  BY SoundDefault, LoadSound
<1>2. ASSUME NEW k, Sound(k) PROVE Sound([Default EXCEPT !.root = k.root])
  <2>1. Default \in Config /\ Good(Default.ports) /\ k.root \in BOOLEAN
    BY <1>2, SoundDefault DEF Sound, Config
  <2>2. [Default EXCEPT !.root = k.root] \in Config /\ [Default EXCEPT !.root = k.root].ports = Default.ports
    BY <2>1 DEF Config
  <2> QED
    BY <2>1, <2>2 DEF Sound
<1> QED
  BY <1>1, <1>2 DEF Basis

LEMMA StartAlike ==
  ASSUME NEW x, NEW y, IsConfig(x), IsConfig(y),
         x.mode = y.mode, x.limit = y.limit, x.binds = y.binds, x.mode = "nat" => x.ports = y.ports
  PROVE  [Known(Serialize(x)) EXCEPT !.ip = 0, !.root = TRUE] = [Known(Serialize(y)) EXCEPT !.ip = 0, !.root = TRUE]
<1>1. Known(Serialize(x)) = Writes(x) /\ Known(Serialize(y)) = Writes(y)
  BY KnownWrites
<1> DEFINE F(z, t) == [root |-> t, mode |-> z.mode, limit |-> z.limit,
                       ports |-> IF z.mode = "nat" THEN z.ports ELSE <<>>,
                       ip |-> 0, binds |-> z.binds, app |-> 0]
<1>2. \A z : [Writes(z) EXCEPT !.ip = 0] = F(z, z.root)
  BY DEF Writes
<1>3. \A z : \A t : [F(z, z.root) EXCEPT !.root = t] = F(z, t)
  OBVIOUS
<1>4. \A t : F(x, t) = F(y, t)
  OBVIOUS
<1> HIDE DEF F
<1>5. \A z : \A t : [Writes(z) EXCEPT !.ip = 0, !.root = t] = F(z, t)
  <2>1. ASSUME NEW w, NEW t PROVE [w EXCEPT !.ip = 0, !.root = t] = [[w EXCEPT !.ip = 0] EXCEPT !.root = t]
    OBVIOUS
  <2> TAKE z, t
  <2>2. [Writes(z) EXCEPT !.ip = 0] = F(z, z.root) /\ [F(z, z.root) EXCEPT !.root = t] = F(z, t)
    BY <1>2, <1>3
  <2>3. [Writes(z) EXCEPT !.ip = 0, !.root = t] = [[Writes(z) EXCEPT !.ip = 0] EXCEPT !.root = t]
    BY <2>1
  <2> QED
    BY <2>2, <2>3
<1>6. \A t : [Writes(x) EXCEPT !.ip = 0, !.root = t] = [Writes(y) EXCEPT !.ip = 0, !.root = t]
  BY <1>4, <1>5, Zenon
<1> QED
  BY <1>1, <1>6, Zenon

LEMMA FreshBy ==
  ASSUME NEW r, r.args \in Arg, IsFile(r.asked), Sound(r.cfg),
         LET w == WithFlags(r.args, Basis(r)) IN
         /\ r.cfg.mode = w.mode /\ r.cfg.limit = w.limit /\ r.cfg.binds = w.binds
         /\ r.cfg.mode = "nat" => r.cfg.ports = w.ports
  PROVE  AsFresh(r)
<1> DEFINE w == WithFlags(r.args, Basis(r))
<1>1. Sound(Basis(r))
  BY BasisSound
<1>2. IsConfig(w) /\ IsConfig(r.cfg)
  BY <1>1, FlagsSound, SoundIsConfig
<1>3. Fresh(r.asked, r.args) = Serialize(w)
  BY DEF Fresh, Basis
<1>4. [Known(Serialize(r.cfg)) EXCEPT !.ip = 0, !.root = TRUE]
        = [Known(Serialize(w)) EXCEPT !.ip = 0, !.root = TRUE]
  BY <1>2, StartAlike
<1> QED
  BY <1>3, <1>4 DEF AsFresh

(* A command goes on with its flags. *)
LEMMA FlagsRun ==
  ASSUME NEW r, IsCommand(r), Sound(r.cfg), IsFile(r.asked)
  PROVE  LET f == Flagged(r) IN
         \/ f = Idle
         \/ /\ f.pc \in {"begin", "stop"} /\ f.c = r.c /\ f.args = r.args /\ f.boot = r.boot
            /\ f.asked = r.asked /\ f.ret = r.ret /\ Sound(f.cfg)
            /\ f.pc = "stop" /\ r.args = Plain => Matches(f.cfg, r.cfg)
            /\ f.pc = "begin" /\ Like(r.cfg, Basis(r)) => AsFresh(f)
<1> DEFINE w == WithFlags(r.args, r.cfg)
           k == IF r.cmd = "stop" \/ r.again THEN w ELSE enforce_nat_safety(w)
           f == [r EXCEPT !.pc = IF r.cmd = "start" \/ r.again THEN "begin" ELSE "stop", !.cfg = k]
<1>1. Flagged(r) = Idle \/ Flagged(r) = f
  BY DEF Flagged
<1>2. r.args \in Arg
  BY DEF IsCommand
<1>3. /\ Sound(w) /\ w.limit = r.cfg.limit /\ w.binds = r.cfg.binds
      /\ w.mode = (IF r.args.mode = "keep" THEN r.cfg.mode ELSE r.args.mode)
      /\ w.ports = AddForwards(r.cfg.ports, r.args.ports)
  BY <1>2, FlagsSound
<1>4. r.args = Plain => Matches(w, r.cfg)
  BY NoFlags
<1> HIDE DEF w
<1>5. /\ Sound(k) /\ k.limit = r.cfg.limit /\ k.binds = r.cfg.binds /\ Matches(k, w)
      /\ k.mode = (IF r.args.mode = "keep" THEN r.cfg.mode ELSE r.args.mode)
      /\ k.mode = "nat" => k.ports = AddForwards(r.cfg.ports, r.args.ports)
  BY <1>3, OthersSound DEF Matches
<1> HIDE DEF k
<1>6. /\ f.pc \in {"begin", "stop"} /\ f.c = r.c /\ f.args = r.args /\ f.boot = r.boot
      /\ f.asked = r.asked /\ f.ret = r.ret /\ f.cfg = k
  BY DEF IsCommand
<1> HIDE DEF f
<1>7. r.args = Plain => Matches(f.cfg, r.cfg)
  BY <1>4, <1>5, <1>6 DEF Matches
<1>8. ASSUME Like(r.cfg, Basis(r)) PROVE AsFresh(f)
  <2>1. Basis(f) = Basis(r)
    BY <1>6 DEF Basis
  <2> DEFINE b == Basis(r)
             v == WithFlags(r.args, b)
  <2>2. Sound(b)
    BY BasisSound
  <2>3. Like(r.cfg, b)
    BY <1>8
  <2> HIDE DEF b
  <2>4. /\ v.limit = b.limit /\ v.binds = b.binds
        /\ v.mode = (IF r.args.mode = "keep" THEN b.mode ELSE r.args.mode)
        /\ v.ports = AddForwards(b.ports, r.args.ports)
    BY <1>2, <2>2, FlagsSound
  <2> HIDE DEF v
  <2>5. /\ k.mode = v.mode /\ k.limit = v.limit /\ k.binds = v.binds
        /\ k.mode = "nat" => k.ports = v.ports
    BY <1>5, <2>3, <2>4 DEF Like
  <2>6. f.args \in Arg /\ IsFile(f.asked) /\ Sound(f.cfg)
    BY <1>2, <1>5, <1>6
  <2>7. LET z == WithFlags(f.args, Basis(f)) IN
        /\ f.cfg.mode = z.mode /\ f.cfg.limit = z.limit /\ f.cfg.binds = z.binds
        /\ f.cfg.mode = "nat" => f.cfg.ports = z.ports
    BY <1>6, <2>1, <2>5 DEF v, b
  <2> QED
    BY <2>6, <2>7, FreshBy
<1> QED
  BY <1>1, <1>5, <1>6, <1>7, <1>8

(* What a command that has loaded a configuration does next. *)
LEMMA LoadedRuns ==
  ASSUME NEW r, IsCommand(r), NEW t, IsFile(t), NEW base, Sound(base)
  PROVE  LET f == Loaded(r, t, base) IN
         \/ f = Idle
         \/ /\ f.pc \in {"begin", "stop"} \/ (f.pc = "save" /\ f.ret = "flags")
            /\ f.c = r.c /\ f.args = r.args /\ f.boot = r.boot /\ IsFile(f.asked) /\ Sound(f.cfg)
            /\ f.pc = "stop" /\ f.args = Plain => Matches(f.cfg, ds_config_load(t, base))
            /\ f.pc = "begin" /\ Like(base, Default) => AsFresh(f)
            /\ f.pc = "save" => f.args.reset /\ Like(f.cfg, Default)
<1> DEFINE k == ds_config_load(t, base)
           l == [r EXCEPT !.cfg = k, !.asked = t]
<1>1. Loaded(r, t, base) = ds_apply_cli_overrides(l)
  BY DEF Loaded
<1>2. Sound(k) /\ IsConfig(k)
  BY LoadSound, SoundIsConfig
<1>3. Like(base, Default) => Like(k, ds_config_load(t, Default))
  <2>1. CASE t = NoFile
    BY <2>1, LoadSound, SoundDefault
  <2>2. CASE t # NoFile
    <3>1. /\ k.mode = (IF t.mode = "absent" THEN base.mode ELSE t.mode)
          /\ k.limit = (IF t.limit > 0 THEN t.limit ELSE base.limit)
          /\ k.ports = AddForwards(base.ports, t.ports) /\ k.binds = base.binds \cup t.binds
      BY <2>2, LoadSound
    <3> DEFINE d == ds_config_load(t, Default)
    <3>2. /\ d.mode = (IF t.mode = "absent" THEN Default.mode ELSE t.mode)
          /\ d.limit = (IF t.limit > 0 THEN t.limit ELSE Default.limit)
          /\ d.ports = AddForwards(Default.ports, t.ports) /\ d.binds = Default.binds \cup t.binds
      BY <2>2, LoadSound, SoundDefault
    <3> HIDE DEF k, d
    <3>3. Like(base, Default) => Like(k, d)
      BY <3>1, <3>2 DEF Like
    <3> QED
      BY <3>3 DEF d
  <2> QED
    BY <2>1, <2>2
<1> HIDE DEF k
<1>4. IsCommand(l) /\ l.c = r.c /\ l.args = r.args /\ l.boot = r.boot /\ l.asked = t /\ l.cfg = k
  BY <1>2 DEF IsCommand
<1> HIDE DEF l
<1>5. CASE l.args.reset
  <2> DEFINE d == ds_config_reset_defaults(l.cfg)
             f == [l EXCEPT !.pc = "save", !.ret = "flags", !.cfg = d]
  <2>1. ds_apply_cli_overrides(l) = f
    BY <1>5 DEF ds_apply_cli_overrides
  <2>2. Sound(d) /\ Like(d, Default)
    BY <1>2, <1>4, OthersSound
  <2> HIDE DEF d
  <2>3. /\ f.pc = "save" /\ f.ret = "flags" /\ f.c = l.c /\ f.args = l.args /\ f.boot = l.boot
        /\ f.asked = l.asked /\ f.cfg = d
    BY <1>4 DEF IsCommand
  <2> HIDE DEF f
  <2> QED
    BY <1>1, <1>4, <1>5, <2>1, <2>2, <2>3
<1>6. CASE ~l.args.reset
  <2> DEFINE f == Flagged(l)
  <2>1. ds_apply_cli_overrides(l) = f
    BY <1>6 DEF ds_apply_cli_overrides
  <2>2. Basis(l) = ds_config_load(t, Default)
    BY <1>4, <1>6 DEF Basis
  <2>3. \/ f = Idle
        \/ /\ f.pc \in {"begin", "stop"} /\ f.c = l.c /\ f.args = l.args /\ f.boot = l.boot
           /\ f.asked = l.asked /\ f.ret = l.ret /\ Sound(f.cfg)
           /\ f.pc = "stop" /\ l.args = Plain => Matches(f.cfg, l.cfg)
           /\ f.pc = "begin" /\ Like(l.cfg, Basis(l)) => AsFresh(f)
    BY <1>2, <1>4, FlagsRun
  <2> HIDE DEF f
  <2> QED
    BY <1>1, <1>3, <1>4, <2>1, <2>2, <2>3 DEF k
<1> QED
  BY <1>5, <1>6

-----------------------------------------------------------------------------
(***************************************************************************)
(* Who a step leaves alone.                                                *)
(***************************************************************************)
(* A command that does not move; it may have been overtaken. *)
AsBefore(f, r) ==
  /\ f.pc = r.pc /\ f.c = r.c /\ f.args = r.args /\ f.cfg = r.cfg /\ f.ret = r.ret
  /\ f.boot = r.boot /\ f.asked = r.asked

(* A container goes on, stops, boots, or is on its way up. *)
Steady(c) ==
  \/ box'[c].up = box[c].up /\ box'[c].n = box[c].n /\ box'[c].cfg = box[c].cfg
  \/ box'[c].up = "down" /\ box'[c].n = box[c].n
  \/ box'[c].up = "boot" /\ box'[c].n = box[c].n + 1
  \/ box[c].up \in {"boot", "marked", "saved"} /\ box'[c].n = box[c].n

SameBox(c) ==
  /\ box'[c].up = box[c].up /\ box'[c].n = box[c].n /\ box'[c].cfg = box[c].cfg
  /\ box'[c].snap = box[c].snap /\ box'[c].fresh = box[c].fresh /\ box'[c].touched = box[c].touched

LEMMA RunFacts ==
  ASSUME StoreInv, RunInv, NEW p \in Proc
  PROVE  /\ IsCommand(ps[p]) /\ ps[p].c \in Cont /\ Placed(ps[p]) /\ Runs(ps[p])
         /\ ps[p].args \in Arg /\ ps[p].boot \in Nat /\ ps[p].ret \in {"flags", "boot", "idle"}
         /\ Kept(ps[p].c) /\ IsBox(box[ps[p].c]) /\ box[ps[p].c].n \in Nat
         /\ Booting(ps[p]) => \A q \in Proc \ {p} : Booting(ps[q]) => ps[q].c # ps[p].c
<1>1. IsCommand(ps[p]) /\ ps[p].c \in Cont /\ Placed(ps[p]) /\ Runs(ps[p]) /\ Kept(ps[p].c) /\ IsBox(box[ps[p].c])
  BY OfCommand DEF RunInv
<1>2. ps[p].args \in Arg /\ ps[p].boot \in Nat /\ ps[p].ret \in {"flags", "boot", "idle"} /\ box[ps[p].c].n \in Nat
  BY <1>1 DEF IsCommand, IsBox
<1>3. ASSUME Booting(ps[p]), NEW q \in Proc \ {p}, Booting(ps[q])
      PROVE  ps[q].c # ps[p].c
  BY <1>3 DEF StoreInv, Control, Placed
<1> QED
  BY <1>1, <1>2, <1>3

LEMMA OthersRun ==
  ASSUME StoreInv, RunInv, NEW q \in Proc, AsBefore(ps'[q], ps[q]), Steady(ps[q].c),
         ps[q].pc = "boot" /\ ~box'[ps[q].c].touched =>
           ~box[ps[q].c].touched /\ file'[ps[q].c] = file[ps[q].c]
  PROVE  Runs(ps[q])'
<1> DEFINE c == ps[q].c
<1>1. /\ Runs(ps[q]) /\ c \in Cont /\ ps[q].boot \in Nat /\ box[c].n \in Nat /\ Kept(c)
  BY RunFacts
<1>2. /\ ps'[q].pc = ps[q].pc /\ ps'[q].c = c /\ ps'[q].args = ps[q].args /\ ps'[q].cfg = ps[q].cfg
      /\ ps'[q].ret = ps[q].ret /\ ps'[q].boot = ps[q].boot /\ ps'[q].asked = ps[q].asked
  BY DEF AsBefore
<1>3. box[c].up # "down" => box[c].n # 0
  BY <1>1 DEF Kept
<1>4. /\ ps[q].boot <= box'[c].n
      /\ ps[q].boot = box'[c].n /\ ps[q].boot # 0 => box'[c].up \in {"up", "down"}
  BY <1>1, <1>3 DEF Steady, Runs
<1>5. Follows(ps[q]) => Follows(ps[q])'
  <2> SUFFICES ASSUME Follows(ps[q]), box'[c].up = "up", ps[q].boot = box'[c].n
               PROVE  Matches(ps[q].cfg, box'[c].cfg)
    BY <1>2 DEF Follows
  <2>1. ps[q].boot <= box[c].n /\ (ps[q].boot = box[c].n /\ ps[q].boot # 0 => box[c].up \in {"up", "down"})
    BY <1>1 DEF Runs
  <2>2. box'[c].up = box[c].up /\ box'[c].n = box[c].n /\ box'[c].cfg = box[c].cfg
    BY <1>1, <1>3, <2>1 DEF Steady
  <2> QED
    BY <2>2 DEF Follows
<1>6. (AsFresh(ps[q]) => AsFresh(ps[q])') /\ (Booting(ps[q])' <=> Booting(ps[q]))
  BY <1>2 DEF AsFresh, Booting
<1>7. ps[q].pc = "boot" /\ ~box'[c].touched => Agrees(file'[c], ps[q].cfg)
  BY <1>1 DEF Runs
<1> QED
  BY <1>1, <1>2, <1>4, <1>5, <1>6, <1>7 DEF Runs

LEMMA KeptSame ==
  ASSUME NEW c, Kept(c), SameBox(c), file'[c] = file[c], edit'[c] = edit[c]
  PROVE  Kept(c)'
BY DEF Kept, SameBox

LEMMA SteadySame ==
  ASSUME NEW c, SameBox(c)
  PROVE  Steady(c)
BY DEF SameBox, Steady

(* A step of a command that changes nothing else but excuses. *)
LEMMA OnlyCommand ==
  ASSUME StoreInv, RunInv, NEW p \in Proc, NEW f, f.c \in Cont, Become(p, f), UNCHANGED <<file, edit>>,
         \A c \in Cont : SameBox(c), Runs(f)
  PROVE  RunInv'
<1>1. ps'[p] = f /\ \A q \in Proc \ {p} : ps'[q] = ps[q]
  BY DEF Become, StoreInv, Shapes
<1>2. Runs(ps[p])'
  <2>1. SameBox(f.c)
    OBVIOUS
  <2> QED
    BY <1>1, <2>1 DEF Runs, SameBox, Follows, AsFresh, Booting
<1>3. ASSUME NEW q \in Proc \ {p}
      PROVE  Runs(ps[q])'
  <2>1. AsBefore(ps'[q], ps[q])
    BY <1>1 DEF AsBefore
  <2>2. SameBox(ps[q].c)
    BY RunFacts
  <2> QED
    BY <2>1, <2>2, SteadySame, OthersRun DEF SameBox
<1>4. \A c \in Cont : Kept(c)'
  BY KeptSame DEF RunInv
<1> QED
  BY <1>2, <1>3, <1>4 DEF RunInv

(* A step of a command and of the container and the file it is about.      *)
LEMMA CommandAnd ==
  ASSUME StoreInv, RunInv, NEW p \in Proc, NEW c \in Cont, c = ps[p].c,
         \A q \in Proc \ {p} : AsBefore(ps'[q], ps[q]),
         \A d \in Cont \ {c} : box'[d] = box[d] /\ file'[d] = file[d] /\ edit'[d] = edit[d],
         edit' \in [Cont -> {"none", "open", "orphan"}],
         Steady(c), Kept(c)', Runs(ps[p])',
         \A q \in Proc \ {p} : ps[q].pc = "boot" /\ ps[q].c = c /\ ~box'[c].touched =>
                                 ~box[c].touched /\ file'[c] = file[c]
  PROVE  RunInv'
<1>1. ASSUME NEW q \in Proc \ {p}
      PROVE  Runs(ps[q])'
  <2>1. ps[q].c \in Cont
    BY RunFacts
  <2>2. CASE ps[q].c = c
    BY <2>2, OthersRun
  <2>3. CASE ps[q].c # c
    BY <2>1, <2>3, OthersRun DEF Steady
  <2> QED
    BY <2>2, <2>3
<1>2. ASSUME NEW d \in Cont
      PROVE  Kept(d)'
  <2>1. CASE d = c
    BY <2>1
  <2>2. CASE d # c
    BY <2>2, KeptSame DEF SameBox, RunInv
  <2> QED
    BY <2>1, <2>2
<1> QED
  BY <1>1, <1>2 DEF RunInv

(* A step of a container and its file. *)
LEMMA ContainerAnd ==
  ASSUME StoreInv, RunInv, NEW c \in Cont,
         \A q \in Proc : AsBefore(ps'[q], ps[q]),
         \A d \in Cont \ {c} : box'[d] = box[d] /\ file'[d] = file[d] /\ edit'[d] = edit[d],
         edit' \in [Cont -> {"none", "open", "orphan"}],
         Steady(c), Kept(c)',
         ~box'[c].touched => ~box[c].touched /\ file'[c] = file[c]
  PROVE  RunInv'
<1>1. ASSUME NEW q \in Proc
      PROVE  Runs(ps[q])'
  <2>1. ps[q].c \in Cont
    BY RunFacts
  <2>2. CASE ps[q].c = c
    BY <2>2, OthersRun
  <2>3. CASE ps[q].c # c
    BY <2>1, <2>3, OthersRun DEF Steady
  <2> QED
    BY <2>2, <2>3
<1>2. ASSUME NEW d \in Cont
      PROVE  Kept(d)'
  <2>1. CASE d = c
    BY <2>1
  <2>2. CASE d # c
    BY <2>2, KeptSame DEF SameBox, RunInv
  <2> QED
    BY <2>1, <2>2
<1> QED
  BY <1>1, <1>2 DEF RunInv

LEMMA OvertakenBefore ==
  ASSUME StoreInv, NEW c, NEW S, NEW q \in Proc
  PROVE  AsBefore(Overtaken(c, S)[q], ps[q])
<1>1. IsCommand(ps[q])
  BY OfCommand
<1>2. CASE q \notin S /\ ps[q].pc # "idle" /\ ps[q].c = c
  <2>1. Overtaken(c, S)[q] = [ps[q] EXCEPT !.over = TRUE]
    BY <1>2 DEF Overtaken
  <2> QED
    BY <1>1, <2>1 DEF IsCommand, AsBefore
<1>3. CASE ~(q \notin S /\ ps[q].pc # "idle" /\ ps[q].c = c)
  <2>1. Overtaken(c, S)[q] = ps[q]
    BY <1>3 DEF Overtaken
  <2> QED
    BY <2>1 DEF AsBefore
<1> QED
  BY <1>2, <1>3

-----------------------------------------------------------------------------
(***************************************************************************)
(* The actions, again.                                                     *)
(***************************************************************************)
LEMMA MatchesBoth ==
  ASSUME NEW x, NEW y, NEW z, Matches(x, y), Matches(y, z)
  PROVE  Matches(x, z) /\ Matches(y, x)
BY DEF Matches

LEMMA IdleRuns == RunInv /\ StoreInv => Runs(Idle) /\ Idle.c \in Cont
<1> SUFFICES ASSUME RunInv, StoreInv PROVE Runs(Idle) /\ Idle.c \in Cont
  OBVIOUS
<1>1. /\ Idle.pc = "idle" /\ Idle.cfg = Default /\ Idle.boot = 0 /\ Idle.asked = NoFile /\ ~Booting(Idle)
      /\ Idle.c \in Cont
  BY IdleCommand DEF Idle, IsCommand
<1>2. box[Idle.c].n \in Nat
  BY <1>1 DEF StoreInv, Shapes, IsBox
<1> QED
  BY <1>1, <1>2, SoundDefault DEF Runs

LEMMA BeginRuns ==
  ASSUME StoreInv, RunInv, NEW p \in Proc, Begin(p)
  PROVE  RunInv'
<1>1. PICK c \in Cont, cmd \in {"start", "stop", "restart", "scan"}, a \in Arg :
        Become(p, [Idle EXCEPT !.pc = IF cmd = "scan" THEN "sync" ELSE "load",
                               !.cmd = cmd, !.c = c, !.args = a])
  BY DEF Begin
<1> DEFINE f == [Idle EXCEPT !.pc = IF cmd = "scan" THEN "sync" ELSE "load",
                             !.cmd = cmd, !.c = c, !.args = a]
<1>2. /\ f.pc \in {"sync", "load"} /\ f.c = c /\ f.cfg = Default /\ f.boot = 0 /\ f.asked = NoFile
  BY IdleCommand DEF Idle
<1>3. Become(p, f) /\ UNCHANGED <<file, edit, box>>
  BY <1>1 DEF Begin
<1> HIDE DEF f
<1>4. box[c].n \in Nat /\ ~Booting(f)
  BY <1>2 DEF StoreInv, Shapes, IsBox, Booting
<1>5. Runs(f)
  BY <1>2, <1>4, SoundDefault DEF Runs
<1> QED
  BY <1>2, <1>3, <1>5, OnlyCommand DEF SameBox

LEMMA LoadRuns ==
  ASSUME StoreInv, RunInv, NEW p \in Proc, Load(p)
  PROVE  RunInv'
<1> DEFINE r == ps[p]
           c == r.c
           live == find_container_by_name(c)
           text == IF live /\ box[c].snap # NoFile THEN box[c].snap ELSE file[c]
           stale == live /\ (file[c] = NoFile \/ file[c].app # text.app)
           l == [r EXCEPT !.boot = IF live THEN box[c].n ELSE 0, !.over = stale]
           f == Loaded(l, text, Default)
<1>1. r.pc = "load" /\ UNCHANGED <<file, edit, box, count>> /\ (Become(p, Idle) \/ Become(p, f))
  BY DEF Load
<1>2. IsCommand(r) /\ c \in Cont /\ Kept(c) /\ box[c].n \in Nat /\ IsFile(file[c]) /\ Sound(box[c].cfg)
  BY RunFacts DEF Kept
<1>3. live <=> box[c].up = "up"
  BY DEF find_container_by_name
<1>4. box[c].up = "up" => text = Serialize(box[c].cfg) /\ box[c].n # 0
  <2>1. Serialize(box[c].cfg) # NoFile
    BY <1>2, SerializeFile
  <2> QED
    BY <1>2, <1>3, <2>1 DEF Kept
<1>5. IsFile(text)
  BY <1>2, <1>3, <1>4, SerializeFile
<1>6. IsCommand(l) /\ l.c = c /\ l.boot = IF live THEN box[c].n ELSE 0
  <2>1. stale \in BOOLEAN /\ (IF live THEN box[c].n ELSE 0) \in Nat
    BY <1>2
  <2> HIDE DEF stale, live
  <2> QED
    BY <1>2, <2>1 DEF IsCommand
<1> HIDE DEF l, text
<1>7. \/ f = Idle
      \/ /\ f.pc \in {"begin", "stop"} \/ (f.pc = "save" /\ f.ret = "flags")
         /\ f.c = c /\ f.boot = l.boot /\ IsFile(f.asked) /\ Sound(f.cfg)
         /\ f.pc = "stop" /\ f.args = Plain => Matches(f.cfg, ds_config_load(text, Default))
         /\ f.pc = "begin" => AsFresh(f)
         /\ f.pc = "save" => f.args.reset /\ Like(f.cfg, Default)
  <2>1. Like(Default, Default)
    BY DEF Like
  <2> QED
    BY <1>5, <1>6, <2>1, LoadedRuns, SoundDefault
<1> HIDE DEF f
<1>8. ASSUME f # Idle PROVE Runs(f) /\ f.c \in Cont
  <2>1. f.boot = IF box[c].up = "up" THEN box[c].n ELSE 0
    BY <1>3, <1>6, <1>7, <1>8
  <2>2. f.pc = "stop" /\ f.args = Plain => Follows(f)
    <3>1. box[c].up = "up" => Matches(ds_config_load(text, Default), box[c].cfg)
      BY <1>2, <1>4, ReadBack
    <3> QED
      BY <1>7, <1>8, <3>1, MatchesBoth DEF Follows
  <2>3. ~Booting(f) /\ f.pc # "boot"
    BY <1>7, <1>8 DEF Booting
  <2> QED
    BY <1>2, <1>7, <1>8, <2>1, <2>2, <2>3 DEF Runs
<1>9. \A d \in Cont : SameBox(d)
  BY <1>1 DEF SameBox
<1> QED
  BY <1>1, <1>8, <1>9, IdleRuns, OnlyCommand

LEMMA ReloadRuns ==
  ASSUME StoreInv, RunInv, NEW p \in Proc, Reload(p)
  PROVE  RunInv'
<1> DEFINE r == ps[p]
           c == r.c
           base == ds_config_reset_defaults(r.cfg)
           l == [r EXCEPT !.again = TRUE, !.over = FALSE]
           f == Loaded(l, file[c], base)
<1>1. r.pc = "reload" /\ UNCHANGED <<file, edit, box, count>> /\ Become(p, f)
  BY DEF Reload
<1>2. IsCommand(r) /\ c \in Cont /\ IsFile(file[c]) /\ Sound(r.cfg) /\ Runs(r) /\ box[c].up = "down"
  BY <1>1, RunFacts DEF Kept, Runs, Placed
<1>3. Sound(base) /\ Like(base, Default)
  BY <1>2, OthersSound
<1>4. IsCommand(l) /\ l.c = c /\ l.boot = r.boot
  BY <1>2 DEF IsCommand
<1> HIDE DEF l, base
<1>5. \/ f = Idle
      \/ /\ f.pc \in {"begin", "stop"} \/ (f.pc = "save" /\ f.ret = "flags")
         /\ f.c = c /\ f.boot = r.boot /\ IsFile(f.asked) /\ Sound(f.cfg)
         /\ f.pc = "begin" => AsFresh(f)
         /\ f.pc = "save" => f.args.reset /\ Like(f.cfg, Default)
  BY <1>2, <1>3, <1>4, LoadedRuns
<1> HIDE DEF f
<1>6. ASSUME f # Idle PROVE Runs(f) /\ f.c \in Cont
  <2>1. ~Booting(f) /\ f.pc # "boot"
    BY <1>5, <1>6 DEF Booting
  <2> QED
    BY <1>2, <1>5, <1>6, <2>1 DEF Runs, Follows
<1>7. \A d \in Cont : SameBox(d)
  BY <1>1 DEF SameBox
<1> QED
  BY <1>1, <1>6, <1>7, IdleRuns, OnlyCommand

LEMMA SyncRuns ==
  ASSUME StoreInv, RunInv, NEW p \in Proc, Sync(p)
  PROVE  RunInv'
<1> DEFINE r == ps[p]
           c == r.c
           k == ds_config_load(box[c].snap, Zeroed)
           f == [r EXCEPT !.pc = "rename", !.ret = "idle", !.boot = box[c].n, !.cfg = k]
<1>1. /\ r.pc = "sync" /\ UNCHANGED <<file, edit, box, count>>
      /\ Become(p, Idle) \/ (box[c].up = "up" /\ Become(p, f))
  BY DEF Sync, Exit, find_container_by_name
<1>2. IsCommand(r) /\ c \in Cont /\ Kept(c) /\ Sound(box[c].cfg) /\ Runs(r) /\ box[c].n \in Nat
  BY RunFacts DEF Kept
<1>3. \A d \in Cont : SameBox(d)
  BY <1>1 DEF SameBox
<1>4. CASE Become(p, Idle)
  BY <1>1, <1>3, <1>4, IdleRuns, OnlyCommand
<1>5. CASE box[c].up = "up" /\ Become(p, f)
  <2>1. Matches(k, box[c].cfg) /\ Sound(k)
    <3>1. box[c].snap = Serialize(box[c].cfg)
      BY <1>2, <1>5 DEF Kept
    <3> QED
      BY <1>2, <3>1, ReadBack, SerializeFile, LoadSound, SoundDefault
  <2> HIDE DEF k
  <2>2. /\ f.pc = "rename" /\ f.ret = "idle" /\ f.boot = box[c].n /\ f.cfg = k /\ f.c = c
        /\ f.asked = r.asked
    BY <1>2 DEF IsCommand
  <2>3. Become(p, f)
    BY <1>5 DEF k
  <2> HIDE DEF f
  <2>4. Runs(f)
    BY <1>2, <1>5, <2>1, <2>2 DEF Runs, Follows, Booting
  <2> QED
    BY <1>1, <1>2, <1>3, <2>2, <2>3, <2>4, OnlyCommand
<1> QED
  BY <1>1, <1>4, <1>5

LEMMA KilledRuns ==
  ASSUME StoreInv, RunInv, NEW p \in Proc, Killed(p)
  PROVE  RunInv'
<1>1. Become(p, Idle) /\ UNCHANGED <<file, edit, box>>
  BY DEF Killed, Exit
<1> QED
  BY <1>1, IdleRuns, OnlyCommand DEF SameBox

(* A start keeps what it is about to boot while it looks for an address,   *)
(* and with the address it settles on.                                     *)
LEMMA StillFresh ==
  ASSUME NEW r, IsCommand(r), NEW f, f.args = r.args, f.asked = r.asked, AsFresh(r), Sound(r.cfg),
         f.cfg = r.cfg \/ \E a \in 0..Size : f.cfg = [r.cfg EXCEPT !.ip = a]
  PROVE  AsFresh(f) /\ Sound(f.cfg)
<1>1. CASE f.cfg = r.cfg
  BY <1>1 DEF AsFresh
<1>2. ASSUME NEW a \in 0..Size, f.cfg = [r.cfg EXCEPT !.ip = a]
      PROVE  AsFresh(f) /\ Sound(f.cfg)
  <2>1. r.cfg \in Config
    BY DEF Sound
  <2>2. /\ f.cfg \in Config /\ f.cfg.mode = r.cfg.mode /\ f.cfg.limit = r.cfg.limit
        /\ f.cfg.binds = r.cfg.binds /\ f.cfg.ports = r.cfg.ports
    BY <1>2, <2>1 DEF Config
  <2>3. Sound(f.cfg)
    BY <2>2 DEF Sound
  <2>4. IsConfig(f.cfg) /\ IsConfig(r.cfg)
    BY <2>3, SoundIsConfig
  <2>5. [Known(Serialize(f.cfg)) EXCEPT !.ip = 0, !.root = TRUE]
          = [Known(Serialize(r.cfg)) EXCEPT !.ip = 0, !.root = TRUE]
    BY <2>2, <2>4, StartAlike
  <2> QED
    BY <2>3, <2>5 DEF AsFresh
<1> QED
  BY <1>1, <1>2

(* What it takes for a start to go on. *)
LEMMA StartGoes ==
  ASSUME StoreInv, RunInv, NEW p \in Proc, ps[p].pc = "begin" \/ Booting(ps[p]),
         NEW f, f.c = ps[p].c, f.args = ps[p].args, f.asked = ps[p].asked, f.boot = ps[p].boot,
         f.pc = "scan" \/ (f.pc \in {"save", "rename"} /\ f.ret = "boot"),
         f.cfg = ps[p].cfg \/ \E a \in 0..Size : f.cfg = [ps[p].cfg EXCEPT !.ip = a]
  PROVE  Runs(f) /\ f.c \in Cont
<1>1. IsCommand(ps[p]) /\ ps[p].c \in Cont /\ Runs(ps[p]) /\ AsFresh(ps[p]) /\ Sound(ps[p].cfg)
  BY RunFacts DEF Runs
<1>2. AsFresh(f) /\ Sound(f.cfg)
  BY <1>1, StillFresh
<1> QED
  BY <1>1, <1>2 DEF Runs

LEMMA NotesSame ==
  ASSUME StoreInv, NEW c \in Cont, NEW x, box' = [box EXCEPT ![c].excused = x], NEW d \in Cont
  PROVE  SameBox(d)
<1>1. IsBox(box[c]) /\ box = [e \in Cont |-> box[e]]
  BY DEF StoreInv, Shapes
<1>2. CASE d = c
  <2>1. box'[c] = [box[c] EXCEPT !.excused = x]
    BY <1>1
  <2> QED
    BY <1>1, <1>2, <2>1 DEF IsBox, SameBox
<1>3. CASE d # c
  <2>1. box'[d] = box[d]
    BY <1>1, <1>3
  <2> QED
    BY <2>1 DEF SameBox
<1> QED
  BY <1>2, <1>3

LEMMA StartRootfsRuns ==
  ASSUME StoreInv, RunInv, NEW p \in Proc, StartRootfs(p)
  PROVE  RunInv'
<1> DEFINE r == ps[p]
           a == IF r.cfg.ip = 0 THEN Hash[r.c] ELSE r.cfg.ip
           n == IF r.cfg.ip = 0 THEN 1 ELSE 0
           f == [r EXCEPT !.pc = "scan", !.left = Others(r.c), !.cand = a, !.tries = n]
           g == [r EXCEPT !.pc = "save", !.ret = "boot"]
<1>1. r.pc = "begin" /\ UNCHANGED <<file, edit, count>>
  BY DEF StartRootfs
<1>2. IsCommand(r)
  BY RunFacts
<1>3. CASE Become(p, Idle) /\ UNCHANGED box
  BY <1>1, <1>3, IdleRuns, OnlyCommand DEF SameBox
<1>4. CASE Become(p, f) \/ Become(p, g)
  <2>1. box' = [box EXCEPT ![r.c].excused = FALSE] \/ UNCHANGED box
    BY DEF StartRootfs, Exit
  <2>2. \A d \in Cont : SameBox(d)
    BY <1>2, <2>1, NotesSame DEF SameBox, IsCommand
  <2>3. /\ f.pc = "scan" /\ f.c = r.c /\ f.args = r.args /\ f.asked = r.asked /\ f.boot = r.boot /\ f.cfg = r.cfg
        /\ g.pc = "save" /\ g.ret = "boot" /\ g.c = r.c /\ g.args = r.args /\ g.asked = r.asked
        /\ g.boot = r.boot /\ g.cfg = r.cfg
    BY <1>2 DEF IsCommand
  <2> HIDE DEF f, g
  <2>4. Runs(f) /\ f.c \in Cont /\ Runs(g) /\ g.c \in Cont
    BY <1>1, <2>3, StartGoes
  <2> QED
    BY <1>1, <1>4, <2>2, <2>4, OnlyCommand
<1> QED
  BY <1>3, <1>4 DEF StartRootfs, Exit

LEMMA ScanRuns ==
  ASSUME StoreInv, RunInv, NEW p \in Proc, ScanFile(p) \/ ScanDone(p)
  PROVE  RunInv'
<1> DEFINE r == ps[p]
<1>1. r.pc = "scan" /\ UNCHANGED <<file, edit, count>>
  BY DEF ScanFile, ScanDone
<1>2. IsCommand(r) /\ r.cand \in 0..Size /\ NextAddr(r.cand) \in 0..Size /\ Booting(r)
  BY <1>1, RunFacts, NextInside DEF IsCommand, Booting
<1>3. UNCHANGED box \/ box' = [box EXCEPT ![r.c].excused = TRUE]
  BY DEF ScanFile, ScanDone
<1>4. \A d \in Cont : SameBox(d)
  BY <1>2, <1>3, NotesSame DEF SameBox, IsCommand
<1>5. PICK f : /\ Become(p, f) /\ f.c = r.c /\ f.args = r.args /\ f.asked = r.asked /\ f.boot = r.boot
               /\ f.pc = "scan" \/ (f.pc = "save" /\ f.ret = "boot")
               /\ f.cfg = r.cfg \/ \E a \in 0..Size : f.cfg = [r.cfg EXCEPT !.ip = a]
  <2> DEFINE Fits(f) == /\ f.c = r.c /\ f.args = r.args /\ f.asked = r.asked /\ f.boot = r.boot
                        /\ f.pc = "scan" \/ (f.pc = "save" /\ f.ret = "boot")
                        /\ f.cfg = r.cfg \/ \E a \in 0..Size : f.cfg = [r.cfg EXCEPT !.ip = a]
  <2>1. \A a \in 0..Size : Fits(Settle(r, a))
    <3> TAKE a \in 0..Size
    <3> DEFINE f == Settle(r, a)
    <3>1. /\ f.c = r.c /\ f.args = r.args /\ f.asked = r.asked /\ f.boot = r.boot
          /\ f.pc = "save" /\ f.ret = "boot" /\ f.cfg = [r.cfg EXCEPT !.ip = a]
      BY <1>2 DEF IsCommand, Settle
    <3> QED
      BY <3>1
  <2>2. \A s : Fits([r EXCEPT !.left = s])
    BY <1>1, <1>2 DEF IsCommand
  <2>3. \A s, n, a : Fits([r EXCEPT !.left = s, !.tries = n, !.cand = a])
    BY <1>1, <1>2 DEF IsCommand
  <2>4. \/ \E a \in 0..Size : Become(p, Settle(r, a))
        \/ \E s : Become(p, [r EXCEPT !.left = s])
        \/ \E s, n, a : Become(p, [r EXCEPT !.left = s, !.tries = n, !.cand = a])
    <3>1. CASE ScanDone(p)
      BY <1>2, <3>1 DEF ScanDone
    <3>2. CASE ScanFile(p)
      <4>1. PICK d \in r.left :
              \/ Become(p, [r EXCEPT !.left = r.left \ {d}])
              \/ Become(p, Settle(r, NextAddr(r.cand)))
              \/ Become(p, [r EXCEPT !.left = Others(r.c), !.tries = r.tries + 1,
                                     !.cand = IF r.tries = 0 THEN Hash[r.c] ELSE NextAddr(r.cand)])
        BY <3>2 DEF ScanFile
      <4> QED
        BY <1>2, <4>1
    <3> QED
      BY <3>1, <3>2
  <2> HIDE DEF Fits
  <2>5. \E f : Become(p, f) /\ Fits(f)
    BY <2>1, <2>2, <2>3, <2>4
  <2> QED
    BY <2>5 DEF Fits
<1>6. Runs(f) /\ f.c \in Cont
  BY <1>2, <1>5, StartGoes
<1> QED
  BY <1>1, <1>4, <1>5, <1>6, OnlyCommand

(* Where a save that was written, needed no writing or failed returns to.  *)
Noted(c) ==
  /\ \A d \in Cont \ {c} : box'[d] = box[d]
  /\ box'[c].up = box[c].up /\ box'[c].n = box[c].n /\ box'[c].cfg = box[c].cfg
  /\ box'[c].snap = box[c].snap /\ box'[c].fresh = box[c].fresh

LEMMA NotedBy ==
  ASSUME StoreInv, NEW c \in Cont, NEW t, NEW x,
         box' = [box EXCEPT ![c] = [box[c] EXCEPT !.touched = t, !.excused = x]]
  PROVE  Noted(c) /\ box'[c].touched = t
<1>1. IsBox(box[c]) /\ box = [e \in Cont |-> box[e]]
  BY DEF StoreInv, Shapes
<1>2. box'[c] = [box[c] EXCEPT !.touched = t, !.excused = x] /\ \A d \in Cont \ {c} : box'[d] = box[d]
  BY <1>1
<1>3. /\ box'[c].up = box[c].up /\ box'[c].n = box[c].n /\ box'[c].cfg = box[c].cfg
      /\ box'[c].snap = box[c].snap /\ box'[c].fresh = box[c].fresh /\ box'[c].touched = t
  BY <1>1, <1>2 DEF IsBox
<1> QED
  BY <1>2, <1>3 DEF Noted

LEMMA TouchedNotes ==
  ASSUME StoreInv, NEW c \in Cont, Touched(c)
  PROVE  Noted(c) /\ box'[c].touched = TRUE
<1>1. box' = [box EXCEPT ![c] = [box[c] EXCEPT !.touched = TRUE, !.excused = TRUE]]
  BY DEF Touched, StoreInv, Shapes
<1> QED
  BY <1>1, NotedBy

LEMMA SavedNotes ==
  ASSUME StoreInv, NEW p \in Proc, Saved(p, ps[p])
  PROVE  LET r == ps[p] IN
         /\ Noted(r.c)
         /\ box'[r.c].touched = (r.ret = "idle" /\ ~(box[r.c].up = "up" /\ box[r.c].n = r.boot))
<1> DEFINE r == ps[p]
           t == r.ret = "idle" /\ ~(box[r.c].up = "up" /\ box[r.c].n = r.boot)
           x == box[r.c].excused \/ r.ret = "idle" \/ Looking(p, r.c)
<1>1. r.c \in Cont
  BY OfCommand
<1>2. box' = [box EXCEPT ![r.c] = [box[r.c] EXCEPT !.touched = t, !.excused = x]]
  BY <1>1 DEF Saved, StoreInv, Shapes
<1> HIDE DEF t, x
<1>3. Noted(r.c) /\ box'[r.c].touched = t
  BY <1>1, <1>2, NotedBy
<1> QED
  BY <1>3 DEF t

LEMMA IdleRunsNext ==
  ASSUME box'[Idle.c].n \in Nat
  PROVE  \A q : AsBefore(ps'[q], Idle) => Runs(ps[q])'
<1>1. /\ Idle.pc = "idle" /\ Idle.cfg = Default /\ Idle.boot = 0 /\ Idle.asked = NoFile /\ ~Booting(Idle)
  BY IdleCommand DEF Idle
<1>2. ASSUME NEW q, AsBefore(ps'[q], Idle) PROVE Runs(ps[q])'
  <2>1. /\ ps'[q].pc = "idle" /\ ps'[q].cfg = Default /\ ps'[q].boot = 0 /\ ps'[q].asked = NoFile
        /\ ps'[q].c = Idle.c
    BY <1>1, <1>2 DEF AsBefore
  <2> QED
    BY <2>1, SoundDefault DEF Runs, Booting
<1> QED
  BY <1>2

LEMMA BasisLike ==
  ASSUME NEW r, r.args.reset, Like(r.cfg, Default)
  PROVE  Like(r.cfg, Basis(r))
<1> DEFINE w == ds_config_load(r.asked, Default).root
<1>1. Basis(r) = [Default EXCEPT !.root = w]
  BY DEF Basis
<1> HIDE DEF w
<1>2. /\ Basis(r).mode = Default.mode /\ Basis(r).limit = Default.limit /\ Basis(r).ports = Default.ports
      /\ Basis(r).binds = Default.binds
  BY <1>1 DEF Default
<1> QED
  BY <1>2 DEF Like

LEMMA AfterSave ==
  ASSUME StoreInv, RunInv, NEW p \in Proc, NEW c \in Cont, c = ps[p].c, ps[p].pc \in {"save", "rename"},
         NEW f, f = Idle \/ f = Return(ps[p]), AsBefore(ps'[p], f),
         \A q \in Proc \ {p} : AsBefore(ps'[q], ps[q]),
         \A d \in Cont \ {c} : file'[d] = file[d] /\ edit'[d] = edit[d],
         edit' \in [Cont -> {"none", "open", "orphan"}],
         Noted(c), IsFile(file'[c]),
         ~box'[c].touched =>
           \/ ps[p].ret # "boot" /\ ~box[c].touched /\ file'[c] = file[c]
           \/ ps[p].ret = "boot" /\ Agrees(file'[c], ps[p].cfg)
           \/ box[c].up = "up" /\ Agrees(file'[c], box[c].cfg)
  PROVE  RunInv'
<1> DEFINE r == ps[p]
<1>1. /\ IsCommand(r) /\ Placed(r) /\ Runs(r) /\ Kept(c) /\ box[c].n \in Nat /\ r.boot \in Nat
      /\ r.ret \in {"flags", "boot", "idle"} /\ r.args \in Arg
      /\ Booting(r) => \A q \in Proc \ {p} : Booting(ps[q]) => ps[q].c # c
  BY RunFacts
<1>2. /\ \A d \in Cont \ {c} : box'[d] = box[d]
      /\ box'[c].up = box[c].up /\ box'[c].n = box[c].n /\ box'[c].cfg = box[c].cfg
      /\ box'[c].snap = box[c].snap /\ box'[c].fresh = box[c].fresh
  BY DEF Noted
<1>3. r.ret = "boot" => Booting(r) /\ box[c].up = "down"
  BY <1>1 DEF Booting, Placed
<1>4. Kept(c)'
  <2>1. IsFile(file'[c])
    OBVIOUS
  <2>2. box[c].up # "down" /\ ~box'[c].touched => Agrees(file'[c], box[c].cfg)
    BY <1>1, <1>3 DEF Kept
  <2> QED
    BY <1>1, <1>2, <2>1, <2>2 DEF Kept
<1>5. Runs(ps[p])'
  <2>1. CASE f = Idle
    <3>1. box'[Idle.c].n \in Nat
      <4>1. Idle.c \in Cont
        BY IdleRuns
      <4>2. box[Idle.c].n \in Nat
        BY <4>1 DEF StoreInv, Shapes, IsBox
      <4> QED
        BY <1>2, <4>1, <4>2
    <3> QED
      BY <2>1, <3>1, IdleRunsNext
  <2>2. CASE f = Return(r) /\ f # Idle
    <3>1. CASE r.ret = "boot"
      <4>1. f = [r EXCEPT !.pc = "boot"]
        BY <2>2, <3>1 DEF Return
      <4>2. /\ ps'[p].pc = "boot" /\ ps'[p].c = c /\ ps'[p].args = r.args /\ ps'[p].cfg = r.cfg
            /\ ps'[p].boot = r.boot /\ ps'[p].asked = r.asked
        BY <1>1, <4>1 DEF IsCommand, AsBefore
      <4>3. Sound(r.cfg) /\ IsFile(r.asked) /\ r.boot <= box[c].n
            /\ (r.boot = box[c].n /\ r.boot # 0 => box[c].up \in {"up", "down"}) /\ AsFresh(r)
        BY <1>1, <1>3, <3>1 DEF Runs
      <4>4. AsFresh(ps'[p])
        BY <4>2, <4>3 DEF AsFresh
      <4>5. ~box'[c].touched => Agrees(file'[c], r.cfg)
        BY <1>3, <3>1
      <4> QED
        BY <1>2, <4>2, <4>3, <4>4, <4>5 DEF Runs
    <3>2. CASE r.ret = "flags"
      <4>1. f = Flagged(r) /\ f # Idle
        BY <2>2, <3>2 DEF Return
      <4>2. Sound(r.cfg) /\ IsFile(r.asked) /\ r.boot <= box[c].n /\ r.args.reset /\ Like(r.cfg, Default)
            /\ (r.boot = box[c].n /\ r.boot # 0 => box[c].up \in {"up", "down"})
        BY <1>1, <3>2 DEF Runs
      <4>3. Like(r.cfg, Basis(r))
        BY <4>2, BasisLike
      <4>4. /\ f.pc \in {"begin", "stop"} /\ f.c = c /\ f.args = r.args /\ f.boot = r.boot
            /\ f.asked = r.asked /\ f.ret = r.ret /\ Sound(f.cfg)
            /\ f.pc = "begin" => AsFresh(f)
        BY <1>1, <4>1, <4>2, <4>3, FlagsRun
      <4>5. r.args # Plain
        BY <4>2 DEF Plain
      <4>6. /\ ps'[p].pc = f.pc /\ ps'[p].c = c /\ ps'[p].args = r.args /\ ps'[p].boot = r.boot
            /\ ps'[p].asked = r.asked /\ ps'[p].ret = r.ret /\ ps'[p].cfg = f.cfg
        BY <4>4 DEF AsBefore
      <4>7. f.pc = "begin" => AsFresh(ps'[p])
        BY <4>4, <4>6 DEF AsFresh
      <4> QED
        BY <1>2, <4>2, <4>4, <4>5, <4>6, <4>7 DEF Runs, Booting
    <3>3. CASE r.ret = "idle"
      BY <2>2, <3>3 DEF Return
    <3> QED
      BY <1>1, <3>1, <3>2, <3>3
  <2> QED
    BY <2>1, <2>2
<1>6. ASSUME NEW q \in Proc \ {p}, ps[q].pc = "boot", ps[q].c = c, ~box'[c].touched
      PROVE  ~box[c].touched /\ file'[c] = file[c]
  <2>1. Booting(ps[q]) /\ box[c].up = "down"
    BY <1>6, RunFacts DEF Booting, Placed
  <2> QED
    BY <1>1, <1>3, <1>6, <2>1
<1>7. Steady(c)
  BY <1>2 DEF Steady
<1> QED
  BY <1>2, <1>4, <1>5, <1>6, <1>7, CommandAnd

LEMMA SaveRuns ==
  ASSUME StoreInv, RunInv, NEW p \in Proc, Save(p)
  PROVE  RunInv'
<1> DEFINE r == ps[p]
           c == r.c
           f == [r EXCEPT !.pc = "rename"]
<1>1. r.pc = "save" /\ UNCHANGED <<file, edit, count>>
  BY DEF Save
<1>2. IsCommand(r) /\ c \in Cont /\ Runs(r) /\ Kept(c) /\ Sound(r.cfg)
  BY RunFacts DEF Runs
<1>3. CASE Become(p, f) /\ UNCHANGED box
  <2>1. /\ f.pc = "rename" /\ f.c = c /\ f.cfg = r.cfg /\ f.args = r.args /\ f.asked = r.asked
        /\ f.boot = r.boot /\ f.ret = r.ret
    BY <1>2 DEF IsCommand
  <2>2. Become(p, f)
    BY <1>3
  <2> HIDE DEF f
  <2>3. Runs(f)
    BY <1>1, <1>2, <2>1 DEF Runs, Follows, AsFresh, Booting
  <2>4. \A d \in Cont : SameBox(d)
    BY <1>3 DEF SameBox
  <2> QED
    BY <1>1, <1>2, <2>1, <2>2, <2>3, <2>4, OnlyCommand
<1>4. CASE /\ file[c] # NoFile
           /\ Known(Serialize(ds_config_load(file[c], Zeroed))) = Known(Serialize(r.cfg))
           /\ Become(p, Return(r)) /\ (IF r.ret = "boot" THEN Saved(p, r) ELSE UNCHANGED box)
  <2>1. ps'[p] = Return(r) /\ \A q \in Proc \ {p} : AsBefore(ps'[q], ps[q])
    BY <1>4 DEF Become, StoreInv, Shapes, AsBefore
  <2>2. /\ Noted(c)
        /\ ~box'[c].touched => \/ r.ret # "boot" /\ ~box[c].touched /\ file'[c] = file[c]
                               \/ r.ret = "boot" /\ Agrees(file'[c], r.cfg)
    <3>1. CASE r.ret = "boot"
      <4>1. Noted(c)
        BY <1>4, <3>1, SavedNotes
      <4>2. Agrees(file[c], r.cfg)
        BY <1>2, <1>4, NeedNotWrite DEF Kept
      <4> QED
        BY <1>1, <3>1, <4>1, <4>2
    <3>2. CASE r.ret # "boot"
      BY <1>1, <1>4, <3>2 DEF Noted
    <3> QED
      BY <3>1, <3>2
  <2>3. IsFile(file'[c]) /\ edit' \in [Cont -> {"none", "open", "orphan"}]
        /\ \A d \in Cont \ {c} : file'[d] = file[d] /\ edit'[d] = edit[d]
    BY <1>1, <1>2 DEF Kept, RunInv
  <2> QED
    BY <1>1, <1>2, <2>1, <2>2, <2>3, AfterSave DEF AsBefore
<1> QED
  BY <1>3, <1>4 DEF Save

LEMMA RenameRuns ==
  ASSUME StoreInv, RunInv, NEW p \in Proc, Rename(p)
  PROVE  RunInv'
<1> DEFINE r == ps[p]
           c == r.c
           t == Serialize(r.cfg)
<1>1. /\ r.pc = "rename" /\ file' = [file EXCEPT ![c] = t]
      /\ edit' = [edit EXCEPT ![c] = IF edit[c] = "open" THEN "orphan" ELSE edit[c]]
      /\ ps' = [Overtaken(c, {p}) EXCEPT ![p] = Return(r)]
      /\ IF r.ret = "flags" THEN Touched(c) ELSE Saved(p, r)
  BY DEF Rename
<1>2. /\ IsCommand(r) /\ c \in Cont /\ Runs(r) /\ Kept(c) /\ Sound(r.cfg)
      /\ r.ret \in {"flags", "boot", "idle"}
  BY RunFacts DEF Runs
<1>3. IsFile(t) /\ Agrees(t, r.cfg)
  BY <1>2, SerializeFile, ReadBack
<1> HIDE DEF t
<1>4. /\ file'[c] = t /\ edit' \in [Cont -> {"none", "open", "orphan"}]
      /\ \A d \in Cont \ {c} : file'[d] = file[d] /\ edit'[d] = edit[d]
  BY <1>1, <1>2 DEF StoreInv, Shapes, RunInv
<1>5. ps'[p] = Return(r)
  BY <1>1 DEF Overtaken
<1>6. ASSUME NEW q \in Proc \ {p} PROVE AsBefore(ps'[q], ps[q])
  <2>1. ps'[q] = Overtaken(c, {p})[q]
    BY <1>1 DEF Overtaken
  <2> QED
    BY <2>1, OvertakenBefore
<1>7. /\ Noted(c)
      /\ ~box'[c].touched => \/ r.ret = "boot" /\ Agrees(file'[c], r.cfg)
                             \/ box[c].up = "up" /\ Agrees(file'[c], box[c].cfg)
  <2>1. CASE r.ret = "flags"
    BY <1>1, <1>2, <2>1, TouchedNotes
  <2>2. CASE r.ret # "flags"
    <3>1. Noted(c) /\ box'[c].touched = (r.ret = "idle" /\ ~(box[c].up = "up" /\ box[c].n = r.boot))
      BY <1>1, <2>2, SavedNotes
    <3>2. CASE r.ret = "boot"
      BY <1>3, <1>4, <3>1, <3>2
    <3>3. CASE r.ret = "idle"
      <4>1. SUFFICES ASSUME box[c].up = "up", r.boot = box[c].n PROVE Agrees(file'[c], box[c].cfg)
        BY <3>1, <3>3
      <4>2. Matches(r.cfg, box[c].cfg)
        BY <1>1, <1>2, <3>3, <4>1 DEF Runs, Follows
      <4> QED
        BY <1>3, <1>4, <4>2, Agreeing
    <3> QED
      BY <1>2, <2>2, <3>2, <3>3
  <2> QED
    BY <2>1, <2>2
<1> QED
  BY <1>1, <1>2, <1>3, <1>4, <1>5, <1>6, <1>7, AfterSave DEF AsBefore

(* What a full disk leaves of a file is still a file. *)
LEMMA CutFile ==
  ASSUME NEW t \in Text, NEW k \in 0..6
  PROVE  IsFile(FirstKeys(t, k))
<1>1. 0 \in (0..Size) \cup {Bad} /\ <<>> \in Seq(Forward) /\ 0 \in Nat
  BY ConfigAssumption
<1>2. (k >= 1 /\ t.root) \in BOOLEAN
  OBVIOUS
<1>3. FirstKeys(t, k) \in Text
  BY <1>1, <1>2 DEF Text, FirstKeys
<1> QED
  BY <1>3 DEF IsFile

LEMMA NoRoomRuns ==
  ASSUME StoreInv, RunInv, NEW p \in Proc, NoRoom(p)
  PROVE  RunInv'
<1> DEFINE r == ps[p]
           c == r.c
           g == Return(r)
<1>0. PICK k \in 0..6 : file' = [file EXCEPT ![c] = FirstKeys(Serialize(r.cfg), k)]
  BY DEF NoRoom
<1> DEFINE t == FirstKeys(Serialize(r.cfg), k)
<1>1. /\ r.pc = "rename" /\ file' = [file EXCEPT ![c] = t] /\ Touched(c)
      /\ edit' = [edit EXCEPT ![c] = IF edit[c] = "open" THEN "orphan" ELSE edit[c]]
      /\ ps' = [Overtaken(c, {p}) EXCEPT ![p] = [g EXCEPT !.over = (g.pc # "idle")]]
  BY <1>0 DEF NoRoom
<1>2. c \in Cont /\ Kept(c) /\ Sound(r.cfg) /\ IsCommand(r)
  BY RunFacts DEF Runs
<1>3. IsFile(t)
  BY <1>2, SerializeFile, CutFile
<1> HIDE DEF t
<1>4. /\ file'[c] = t /\ edit' \in [Cont -> {"none", "open", "orphan"}]
      /\ \A d \in Cont \ {c} : file'[d] = file[d] /\ edit'[d] = edit[d]
  BY <1>1, <1>2 DEF StoreInv, Shapes, RunInv
<1>5. ps'[p] = [g EXCEPT !.over = (g.pc # "idle")]
  BY <1>1 DEF Overtaken
<1>6. AsBefore(ps'[p], g)
  <2>1. g = Idle \/ IsCommand(g)
    <3>1. r.ret = "flags" => g = Flagged(r)
      BY DEF Return
    <3>2. r.ret = "boot" => g = [r EXCEPT !.pc = "boot"]
      BY DEF Return
    <3>3. r.ret = "idle" => g = Idle
      BY DEF Return
    <3> HIDE DEF g
    <3>4. CASE r.ret = "flags"
      BY <1>2, <3>1, <3>4, FlagsLead
    <3>5. CASE r.ret = "boot"
      BY <1>2, <3>2, <3>5 DEF IsCommand, Pcs
    <3> QED
      BY <1>2, <3>3, <3>4, <3>5 DEF IsCommand
  <2>2. IsCommand(g)
    BY <2>1, IdleCommand
  <2> HIDE DEF g
  <2> QED
    BY <1>5, <2>2 DEF IsCommand, AsBefore
<1>7. ASSUME NEW q \in Proc \ {p} PROVE AsBefore(ps'[q], ps[q])
  <2>1. ps'[q] = Overtaken(c, {p})[q]
    BY <1>1 DEF Overtaken
  <2> QED
    BY <2>1, OvertakenBefore
<1>8. Noted(c) /\ box'[c].touched = TRUE
  BY <1>1, <1>2, TouchedNotes
<1>9. /\ c = ps[p].c /\ ps[p].pc \in {"save", "rename"} /\ g = Return(ps[p])
      /\ edit' \in [Cont -> {"none", "open", "orphan"}] /\ IsFile(file'[c])
      /\ \A d \in Cont \ {c} : file'[d] = file[d] /\ edit'[d] = edit[d]
  BY <1>1, <1>3, <1>4
<1>10. c \in Cont
  BY <1>2
<1> HIDE DEF r, c, g
<1> QED
  BY <1>6, <1>7, <1>8, <1>9, <1>10, AfterSave

LEMMA SaveFailsRuns ==
  ASSUME StoreInv, RunInv, NEW p \in Proc, SaveFails(p)
  PROVE  RunInv'
<1> DEFINE r == ps[p]
           c == r.c
           f == IF r.ret = "boot" /\ r.boot # 0 THEN Idle ELSE Return(r)
<1>1. r.pc = "rename" /\ Become(p, f) /\ Touched(c) /\ UNCHANGED <<file, edit>>
  BY DEF SaveFails
<1>2. c \in Cont /\ Kept(c)
  BY RunFacts
<1>3. (ps'[p] = Idle \/ ps'[p] = Return(r)) /\ \A q \in Proc \ {p} : AsBefore(ps'[q], ps[q])
  BY <1>1 DEF Become, StoreInv, Shapes, AsBefore
<1>4. Noted(c) /\ box'[c].touched = TRUE
  BY <1>1, <1>2, TouchedNotes
<1>5. IsFile(file'[c]) /\ edit' \in [Cont -> {"none", "open", "orphan"}]
      /\ \A d \in Cont \ {c} : file'[d] = file[d] /\ edit'[d] = edit[d]
  BY <1>1, <1>2 DEF Kept, RunInv
<1> QED
  BY <1>1, <1>2, <1>3, <1>4, <1>5, AfterSave DEF AsBefore

LEMMA BootRuns ==
  ASSUME StoreInv, RunInv, NEW p \in Proc, Boot(p)
  PROVE  RunInv'
<1>0. PICK c \in Cont : c = ps[p].c
  BY RunFacts
<1> DEFINE r == ps[p]
           x == AsFresh(r)
           n == box[c].n + 1
           b == [box[c] EXCEPT !.up = "boot", !.n = n, !.cfg = r.cfg, !.snap = NoFile, !.fresh = x]
<1>1. r.pc = "boot" /\ Become(p, Idle) /\ UNCHANGED <<file, edit, count>> /\ box' = [box EXCEPT ![c] = b]
  BY <1>0 DEF Boot, Exit
<1>2. /\ IsCommand(r) /\ r.c = c /\ Runs(r) /\ Kept(c) /\ Sound(r.cfg) /\ IsBox(box[c]) /\ box[c].n \in Nat
      /\ Booting(r) /\ \A q \in Proc \ {p} : Booting(ps[q]) => ps[q].c # c
  BY <1>0, <1>1, RunFacts DEF Runs, Booting
<1>3. x = TRUE
  BY <1>2 DEF Runs
<1>4. n \in Nat /\ n # 0 /\ n = box[c].n + 1
  BY <1>2
<1> HIDE DEF x, n
<1>5. /\ b.up = "boot" /\ b.n = n /\ b.cfg = r.cfg /\ b.snap = NoFile /\ b.fresh = x
      /\ b.touched = box[c].touched
  BY <1>2 DEF IsBox
<1> HIDE DEF b
<1>6. box'[c] = b /\ \A d \in Cont \ {c} : box'[d] = box[d]
  BY <1>1, <1>2 DEF StoreInv, Shapes
<1>7. /\ ps'[p] = Idle
      /\ \A q \in Proc \ {p} : AsBefore(ps'[q], ps[q])
  BY <1>1 DEF Become, StoreInv, Shapes, AsBefore
<1>8. Kept(c)'
  <2>1. ~box[c].touched => Agrees(file[c], r.cfg)
    BY <1>1, <1>2 DEF Runs
  <2>2. box'[c].fresh = TRUE
    <3>1. box'[c].fresh = x
      BY <1>5, <1>6
    <3> QED
      BY <1>3, <3>1, Zenon
  <2>3. /\ box'[c].up = "boot" /\ box'[c].n # 0 /\ box'[c].cfg = r.cfg /\ box'[c].snap = NoFile
        /\ box'[c].touched = box[c].touched /\ file'[c] = file[c] /\ edit'[c] = edit[c]
    BY <1>1, <1>4, <1>5, <1>6
  <2>4. IsFile(file[c]) /\ Sound(r.cfg)
    BY <1>2 DEF Kept
  <2> QED
    BY <2>1, <2>2, <2>3, <2>4 DEF Kept
<1>9. Runs(ps[p])'
  <2>1. Idle.c \in Cont
    BY IdleRuns
  <2>2. box[Idle.c].n \in Nat
    BY <2>1 DEF StoreInv, Shapes, IsBox
  <2>3. box'[Idle.c].n \in Nat
    BY <1>4, <1>5, <1>6, <2>1, <2>2
  <2> QED
    BY <1>7, <2>3, IdleRunsNext DEF AsBefore
<1>10. Steady(c)
  BY <1>4, <1>5, <1>6 DEF Steady
<1>11. \A q \in Proc \ {p} : ps[q].pc = "boot" => ps[q].c # c
  BY <1>2 DEF Booting
<1>12. /\ edit' \in [Cont -> {"none", "open", "orphan"}]
       /\ \A d \in Cont \ {c} : file'[d] = file[d] /\ edit'[d] = edit[d]
  BY <1>1 DEF RunInv
<1> QED
  BY <1>2, <1>6, <1>7, <1>8, <1>9, <1>10, <1>11, <1>12, CommandAnd

LEMMA StopRuns ==
  ASSUME StoreInv, RunInv, NEW p \in Proc, Stop(p)
  PROVE  RunInv'
<1>0. PICK c \in Cont : c = ps[p].c
  BY RunFacts
<1> DEFINE r == ps[p]
           n == box[c].n
           b == [Down EXCEPT !.n = n]
           g == [r EXCEPT !.pc = "reload"]
<1>1. r.pc = "stop" /\ UNCHANGED <<file, edit, count>>
  BY <1>0 DEF Stop
<1>2. IsCommand(r) /\ r.c = c /\ Runs(r) /\ Kept(c) /\ n \in Nat /\ r.boot \in Nat
  BY <1>0, RunFacts
<1>3. CASE Become(p, Idle) /\ UNCHANGED box
  BY <1>1, <1>3, IdleRuns, OnlyCommand DEF SameBox
<1>4. CASE (Become(p, Idle) \/ Become(p, g)) /\ box' = [box EXCEPT ![c] = b]
  <2>1. /\ b.up = "down" /\ b.n = n /\ b.cfg = Default /\ b.snap = NoFile /\ b.fresh = TRUE /\ b.touched = TRUE
    BY DEF Down
  <2> HIDE DEF b
  <2>2. box'[c] = b /\ \A d \in Cont \ {c} : box'[d] = box[d]
    BY <1>2, <1>4 DEF StoreInv, Shapes
  <2>3. (ps'[p] = Idle \/ ps'[p] = g) /\ \A q \in Proc \ {p} : AsBefore(ps'[q], ps[q])
    BY <1>4 DEF Become, StoreInv, Shapes, AsBefore
  <2>4. Kept(c)'
    BY <1>1, <1>2, <2>1, <2>2, SoundDefault DEF Kept
  <2>5. Runs(ps[p])'
    <3>1. CASE ps'[p] = Idle
      <4>1. Idle.c \in Cont
        BY IdleRuns
      <4>2. box[Idle.c].n \in Nat
        BY <4>1 DEF StoreInv, Shapes, IsBox
      <4>3. box'[Idle.c].n \in Nat
        BY <1>2, <2>1, <2>2, <4>1, <4>2
      <4> QED
        BY <3>1, <4>3, IdleRunsNext DEF AsBefore
    <3>2. CASE ps'[p] = g
      <4>1. g.pc = "reload" /\ g.c = c /\ g.cfg = r.cfg /\ g.asked = r.asked /\ g.boot = r.boot
        BY <1>2 DEF IsCommand
      <4> HIDE DEF g
      <4> QED
        BY <1>2, <2>1, <2>2, <3>2, <4>1 DEF Runs, Booting
    <3> QED
      BY <2>3, <3>1, <3>2
  <2>6. Steady(c)
    BY <2>1, <2>2 DEF Steady
  <2>7. /\ edit' \in [Cont -> {"none", "open", "orphan"}]
        /\ \A d \in Cont \ {c} : file'[d] = file[d] /\ edit'[d] = edit[d]
    BY <1>1 DEF RunInv
  <2>8. box'[c].touched = TRUE
    BY <2>1, <2>2
  <2> QED
    BY <1>2, <2>2, <2>3, <2>4, <2>5, <2>6, <2>7, <2>8, CommandAnd
<1> QED
  BY <1>0, <1>3, <1>4 DEF Stop, Exit

LEMMA InitRuns ==
  ASSUME StoreInv, RunInv, NEW c \in Cont, Mark(c) \/ Snapshot(c) \/ Name(c)
  PROVE  RunInv'
<1>1. IsBox(box[c]) /\ Kept(c) /\ box = [d \in Cont |-> box[d]]
  BY DEF StoreInv, Shapes, RunInv
<1>2. UNCHANGED <<file, edit, ps>>
  BY DEF Mark, Snapshot, Name, InitStep
<1>3. PICK b : /\ box' = [box EXCEPT ![c] = b] /\ box[c].up \in {"boot", "marked", "saved"}
               /\ b.n = box[c].n /\ b.cfg = box[c].cfg /\ b.fresh = box[c].fresh
               /\ b.touched = box[c].touched /\ b.up # "down"
               /\ b.snap = IF b.up \in {"saved", "up"} THEN Serialize(box[c].cfg) ELSE NoFile
  <2>1. CASE Mark(c)
    <3> DEFINE b == [box[c] EXCEPT !.up = "marked"]
    <3>1. /\ b.n = box[c].n /\ b.cfg = box[c].cfg /\ b.fresh = box[c].fresh
          /\ b.touched = box[c].touched /\ b.up = "marked" /\ b.snap = box[c].snap
      BY <1>1 DEF IsBox
    <3>2. box' = [box EXCEPT ![c] = b] /\ box[c].up = "boot"
      BY <2>1 DEF Mark, InitStep
    <3>3. box[c].snap = NoFile
      BY <1>1, <3>2 DEF Kept
    <3> HIDE DEF b
    <3> QED
      BY <3>1, <3>2, <3>3
  <2>2. CASE Snapshot(c)
    <3> DEFINE t == Serialize(box[c].cfg)
               b == [box[c] EXCEPT !.up = "saved", !.snap = t]
    <3>1. box' = [box EXCEPT ![c] = b] /\ box[c].up = "marked"
      BY <2>2 DEF Snapshot, InitStep
    <3> HIDE DEF t
    <3>2. /\ b.n = box[c].n /\ b.cfg = box[c].cfg /\ b.fresh = box[c].fresh
          /\ b.touched = box[c].touched /\ b.up = "saved" /\ b.snap = t
      BY <1>1 DEF IsBox
    <3> HIDE DEF b
    <3> QED
      BY <3>1, <3>2 DEF t
  <2>3. CASE Name(c)
    <3> DEFINE b == [box[c] EXCEPT !.up = "up"]
    <3>1. /\ b.n = box[c].n /\ b.cfg = box[c].cfg /\ b.fresh = box[c].fresh
          /\ b.touched = box[c].touched /\ b.up = "up" /\ b.snap = box[c].snap
      BY <1>1 DEF IsBox
    <3>2. box' = [box EXCEPT ![c] = b] /\ box[c].up = "saved"
      BY <2>3 DEF Name, InitStep
    <3>3. box[c].snap = Serialize(box[c].cfg)
      BY <1>1, <3>2 DEF Kept
    <3> HIDE DEF b
    <3> QED
      BY <3>1, <3>2, <3>3
  <2> QED
    BY <2>1, <2>2, <2>3
<1>4. box'[c] = b /\ \A d \in Cont \ {c} : box'[d] = box[d]
  BY <1>1, <1>3
<1>5. Kept(c)'
  BY <1>1, <1>2, <1>3, <1>4 DEF Kept
<1>6. Steady(c)
  BY <1>3, <1>4 DEF Steady
<1>7. \A q \in Proc : AsBefore(ps'[q], ps[q])
  BY <1>2 DEF AsBefore
<1>8. edit' \in [Cont -> {"none", "open", "orphan"}]
  BY <1>2 DEF RunInv
<1> QED
  BY <1>2, <1>3, <1>4, <1>5, <1>6, <1>7, <1>8, ContainerAnd

LEMMA RebootRuns ==
  ASSUME StoreInv, RunInv, NEW c \in Cont, Reboot(c)
  PROVE  RunInv'
<1> DEFINE old == [box[c].cfg EXCEPT !.binds = {}]
           k == ds_config_load(file[c], old)
           n == box[c].n + 1
           b == [box[c] EXCEPT !.up = "boot", !.n = n, !.snap = NoFile, !.cfg = k]
<1>1. /\ box[c].up = "up" /\ UNCHANGED <<file, edit, ps>> /\ box' = [box EXCEPT ![c] = b]
  BY DEF Reboot, StoreInv, Shapes
<1>2. IsBox(box[c]) /\ Kept(c) /\ box[c].n \in Nat /\ Sound(box[c].cfg) /\ IsFile(file[c])
  BY DEF StoreInv, Shapes, RunInv, Kept, IsBox
<1>3. Sound(old)
  <2>1. old \in Config /\ old.ports = box[c].cfg.ports
    BY <1>2 DEF Sound, Config
  <2> QED
    BY <1>2, <2>1 DEF Sound
<1>4. Agrees(file[c], box[c].cfg) => Agrees(file[c], k)
  BY <1>2, LoadedOver
<1> HIDE DEF old
<1>5. Sound(k)
  BY <1>2, <1>3, LoadSound
<1>6. n \in Nat /\ n # 0 /\ n = box[c].n + 1
  BY <1>2
<1> HIDE DEF k, n
<1>7. /\ b.up = "boot" /\ b.n = n /\ b.cfg = k /\ b.snap = NoFile /\ b.fresh = box[c].fresh
      /\ b.touched = box[c].touched
  BY <1>2 DEF IsBox
<1> HIDE DEF b
<1>8. box'[c] = b /\ \A d \in Cont \ {c} : box'[d] = box[d]
  BY <1>1 DEF StoreInv, Shapes
<1>9. Kept(c)'
  <2>1. /\ box'[c].up = "boot" /\ box'[c].n # 0 /\ box'[c].cfg = k /\ box'[c].snap = NoFile
        /\ box'[c].fresh = box[c].fresh
        /\ box'[c].touched = box[c].touched /\ file'[c] = file[c] /\ edit'[c] = edit[c]
    BY <1>1, <1>6, <1>7, <1>8
  <2>2. ~box[c].touched => Agrees(file[c], k)
    BY <1>1, <1>2, <1>4 DEF Kept
  <2> QED
    BY <1>2, <1>5, <2>1, <2>2 DEF Kept
<1>10. Steady(c)
  BY <1>6, <1>7, <1>8 DEF Steady
<1>11. \A q \in Proc : AsBefore(ps'[q], ps[q])
  BY <1>1 DEF AsBefore
<1>12. edit' \in [Cont -> {"none", "open", "orphan"}] /\ box'[c].touched = box[c].touched
  BY <1>1, <1>7, <1>8 DEF RunInv
<1> QED
  BY <1>1, <1>8, <1>9, <1>10, <1>11, <1>12, ContainerAnd

(* A file changes, and whoever relied on it is told in the notes. *)
LEMMA FileRuns ==
  ASSUME StoreInv, RunInv, NEW c \in Cont, Touched(c), ps' = Overtaken(c, {}),
         NEW t, IsFile(t), file' = [file EXCEPT ![c] = t],
         edit' \in [Cont -> {"none", "open", "orphan"}], \A d \in Cont \ {c} : edit'[d] = edit[d]
  PROVE  RunInv'
<1>1. Noted(c) /\ box'[c].touched = TRUE
  BY TouchedNotes
<1>2. file'[c] = t /\ \A d \in Cont \ {c} : file'[d] = file[d]
  BY DEF StoreInv, Shapes
<1>3. Kept(c)'
  BY <1>1, <1>2 DEF Kept, Noted, RunInv
<1>4. \A q \in Proc : AsBefore(ps'[q], ps[q])
  BY OvertakenBefore
<1>5. Steady(c) /\ \A d \in Cont \ {c} : box'[d] = box[d]
  BY <1>1 DEF Noted, Steady
<1> QED
  BY <1>1, <1>2, <1>3, <1>4, <1>5, ContainerAnd

LEMMA EditRuns ==
  ASSUME StoreInv, RunInv, NEW c \in Cont, EditOpens(c) \/ EditWrites(c) \/ FileLost(c)
  PROVE  RunInv'
<1>1. edit \in [Cont -> {"none", "open", "orphan"}]
  BY DEF RunInv
<1>2. CASE EditOpens(c)
  <2>1. /\ Touched(c) /\ ps' = Overtaken(c, {}) /\ file' = [file EXCEPT ![c] = Empty]
        /\ edit' = [edit EXCEPT ![c] = "open"]
    BY <1>2 DEF EditOpens
  <2> QED
    BY <1>1, <2>1, SoundDefault, FileRuns
<1>3. CASE FileLost(c)
  <2>1. /\ Touched(c) /\ ps' = Overtaken(c, {}) /\ file' = [file EXCEPT ![c] = NoFile]
        /\ UNCHANGED edit
    BY <1>3 DEF FileLost
  <2> QED
    BY <1>1, <2>1, SoundDefault, FileRuns
<1>4. CASE EditWrites(c)
  <2>1. edit' = [edit EXCEPT ![c] = "none"]
    BY <1>4 DEF EditWrites
  <2>2. CASE edit[c] = "open"
    <3>1. PICK t \in Texts : file' = [file EXCEPT ![c] = [t EXCEPT !.app = count.edit + 1]]
      BY <1>4, <2>2 DEF EditWrites
    <3>2. Touched(c) /\ ps' = Overtaken(c, {})
      BY <1>4, <2>2 DEF EditWrites
    <3>3. count.edit + 1 \in Nat
      BY DEF StoreInv, Shapes
    <3> DEFINE u == [t EXCEPT !.app = count.edit + 1]
    <3>4. u \in Text
      BY <3>3, EditedText
    <3>5. file' = [file EXCEPT ![c] = u]
      BY <3>1
    <3> HIDE DEF u
    <3> QED
      BY <1>1, <2>1, <3>2, <3>4, <3>5, FileRuns DEF IsFile
  <2>3. CASE edit[c] # "open"
    <3>1. UNCHANGED <<file, ps, box>> /\ edit[c] # "none"
      BY <1>4, <2>3 DEF EditWrites
    <3>2. Kept(c)'
      BY <2>3, <3>1 DEF RunInv, Kept
    <3>3. \A q \in Proc : AsBefore(ps'[q], ps[q])
      BY <3>1 DEF AsBefore
    <3>4. Steady(c)
      BY <3>1 DEF Steady
    <3> QED
      BY <1>1, <2>1, <3>1, <3>2, <3>3, <3>4, ContainerAnd
  <2> QED
    BY <2>2, <2>3
<1> QED
  BY <1>2, <1>3, <1>4

-----------------------------------------------------------------------------
(***************************************************************************)
(* The theorems about what is loaded, saved and booted.                    *)
(***************************************************************************)
LEMMA RunInit == Init => RunInv
<1> SUFFICES ASSUME Init PROVE RunInv
  OBVIOUS
<1>1. /\ file \in [Cont -> Texts \cup {NoFile}] /\ edit = [c \in Cont |-> "none"]
      /\ ps = [p \in Proc |-> Idle] /\ box = [c \in Cont |-> Down]
  BY DEF Init
<1>2. StoreInv
  BY StoreInit
<1>3. ASSUME NEW c \in Cont PROVE Kept(c)
  <2>1. IsFile(file[c])
    BY <1>1, EditedText, SoundDefault DEF IsFile
  <2>2. /\ box[c].up = "down" /\ box[c].cfg = Default /\ box[c].snap = NoFile /\ box[c].fresh = TRUE
    BY <1>1 DEF Down
  <2> QED
    BY <2>1, <2>2, SoundDefault DEF Kept
<1>4. ASSUME NEW p \in Proc PROVE Runs(ps[p])
  <2>1. /\ ps[p].pc = "idle" /\ ps[p].cfg = Default /\ ps[p].boot = 0 /\ ps[p].asked = NoFile
        /\ ps[p].c \in Cont /\ ~Booting(ps[p])
    BY <1>1, IdleCommand DEF Idle, IsCommand
  <2>2. box[ps[p].c].n = 0
    BY <1>1, <2>1 DEF Down
  <2> QED
    BY <2>1, <2>2, SoundDefault DEF Runs
<1> QED
  BY <1>1, <1>3, <1>4 DEF RunInv

LEMMA RunStep == StoreInv /\ RunInv /\ [Next]_vars => RunInv'
<1> SUFFICES ASSUME StoreInv, RunInv, [Next]_vars PROVE RunInv'
  OBVIOUS
<1>1. CASE UNCHANGED vars
  BY <1>1 DEF vars, RunInv, Runs, Kept, Follows, Booting
<1>2. ASSUME NEW p \in Proc,
             \/ Begin(p) \/ Load(p) \/ StartRootfs(p) \/ ScanFile(p)
             \/ ScanDone(p) \/ Save(p) \/ Rename(p) \/ NoRoom(p) \/ SaveFails(p) \/ Killed(p)
             \/ Boot(p) \/ Stop(p) \/ Reload(p) \/ Sync(p)
      PROVE  RunInv'
  BY <1>2, BeginRuns, LoadRuns, StartRootfsRuns, ScanRuns, SaveRuns, RenameRuns,
     NoRoomRuns, SaveFailsRuns, KilledRuns, BootRuns, StopRuns, ReloadRuns, SyncRuns
<1>3. ASSUME NEW c \in Cont,
             \/ Mark(c) \/ Snapshot(c) \/ Name(c) \/ Reboot(c)
             \/ EditOpens(c) \/ EditWrites(c) \/ FileLost(c)
      PROVE  RunInv'
  BY <1>3, InitRuns, RebootRuns, EditRuns
<1> QED
  BY <1>1, <1>2, <1>3 DEF Next

(* Whatever is loaded, flagged, saved or interrupted, and in any order:    *)
(* every configuration that is held has disjoint forwards, a stop works on *)
(* what was booted, a start boots what the file it loaded and its flags    *)
(* ask for, and a file that nobody else touched says what runs.            *)
THEOREM RunInvariant == Spec => []RunInv
<1>1. StoreInv /\ RunInv /\ [Next]_vars => (StoreInv /\ RunInv)'
  BY StoreStep, RunStep
<1> QED
  BY StoreInit, RunInit, <1>1, PTL DEF Spec

(* The types, disjoint forwards, and stops that work on what was booted,   *)
(* whatever an editor, a killed save or a full disk leaves of the files:   *)
(* ds_config_load's and --port's overlap tests, and the snapshot, for      *)
(* lists of forwards of any length.                                        *)
THEOREM ConfigsRight == Spec => []ConfigInv
<1>1. StoreInv /\ RunInv => ConfigInv
  <2> SUFFICES ASSUME StoreInv, RunInv PROVE ConfigInv
    OBVIOUS
  <2>1. \A p \in Proc : Runs(ps[p]) /\ Sound(ps[p].cfg)
    BY DEF RunInv, Runs
  <2>2. \A c \in Cont : Kept(c) /\ Sound(box[c].cfg)
    BY DEF RunInv, Kept
  <2>3. TypeOK
    <3>1. \A c \in Cont : file[c] = NoFile \/ file[c] \in Text
      BY <2>2 DEF Kept, IsFile
    <3>2. \A p \in Proc : ps[p].cfg \in Config /\ ps[p].left \subseteq Cont
      <4>1. \A p \in Proc : IsCommand(ps[p])
        BY OfCommand
      <4> QED
        BY <2>1, <4>1 DEF Sound, IsCommand
    <3>3. \A c \in Cont : box[c].cfg \in Config /\ (box[c].snap = NoFile \/ box[c].snap \in Text)
      <4> TAKE c \in Cont
      <4>1. box[c].snap = NoFile \/ box[c].snap = Serialize(box[c].cfg)
        BY <2>2 DEF Kept
      <4> QED
        BY <2>2, <4>1, SerializeFile DEF Sound
    <3> QED
      BY <3>1, <3>2, <3>3 DEF TypeOK, RunInv
  <2>4. PortsDisjoint
    <3> SUFFICES ASSUME NEW cfg, Sound(cfg)
                 PROVE  /\ Len(cfg.ports) <= MaxForward
                        /\ \A i, j \in 1..Len(cfg.ports) :
                             i # j /\ cfg.ports[i].proto = cfg.ports[j].proto =>
                               /\ Ports(cfg.ports[i].h) \cap Ports(cfg.ports[j].h) = {}
                               /\ Ports(cfg.ports[i].c) \cap Ports(cfg.ports[j].c) = {}
      <4>1. \A cfg \in {ps[p].cfg : p \in Proc} \cup {box[c].cfg : c \in Cont} : Sound(cfg)
        BY <2>1, <2>2
      <4> QED
        BY <4>1, Zenon DEF PortsDisjoint
    <3>1. Good(cfg.ports)
      BY DEF Sound
    <3>2. ASSUME NEW i \in 1..Len(cfg.ports), NEW j \in 1..Len(cfg.ports), i # j,
                 cfg.ports[i].proto = cfg.ports[j].proto
          PROVE  /\ Ports(cfg.ports[i].h) \cap Ports(cfg.ports[j].h) = {}
                 /\ Ports(cfg.ports[i].c) \cap Ports(cfg.ports[j].c) = {}
      <4> DEFINE f == cfg.ports[i]
                 h == cfg.ports[j]
      <4>1. f \in Forward /\ h \in Forward /\ ~Clash(f, h)
        BY <3>1, <3>2, ClashEither DEF Good
      <4> HIDE DEF f, h
      <4>2. ~Overlap(f.h, h.h) /\ ~Overlap(f.c, h.c)
        BY <3>2, <4>1 DEF Clash, f, h
      <4>3. ASSUME NEW r \in Nat \X Nat, NEW s \in Nat \X Nat, ~Overlap(r, s)
            PROVE  Ports(r) \cap Ports(s) = {}
        BY <4>3 DEF Overlap, Ports
      <4> QED
        BY <4>1, <4>2, <4>3, PortAssumption DEF f, h
    <3> QED
      BY <3>1, <3>2 DEF Good
  <2>5. StopSeesBoot
    BY <2>1 DEF StopSeesBoot, Runs, Follows, Matches
  <2> QED
    BY <2>3, <2>4, <2>5 DEF ConfigInv
<1> QED
  BY <1>1, StoreInvariant, RunInvariant, PTL

(* A restart boots what a fresh start with its flags would boot, and a     *)
(* start saves what it boots: ds_config_reset_defaults before the second   *)
(* load, and ds_config_save's comparison with the file before it writes.   *)
THEOREM BootsRight == Spec => []BootsWhatIsAsked
<1>1. StoreInv /\ RunInv => BootsWhatIsAsked
  <2> SUFFICES ASSUME StoreInv, RunInv PROVE BootsWhatIsAsked
    OBVIOUS
  <2>1. RestartIsStart
    BY DEF RestartIsStart, RunInv, Kept
  <2>2. BootedIsSaved
    <3> SUFFICES ASSUME NEW c \in Cont, box[c].snap # NoFile, ~box[c].touched
                 PROVE  /\ file[c] # NoFile
                        /\ file[c].mode # "absent" =>
                             Known(Serialize(ds_config_load(file[c], Default))) = Known(box[c].snap)
      BY DEF BootedIsSaved
    <3>1. Kept(c)
      BY DEF RunInv
    <3>2. box[c].snap = Serialize(box[c].cfg) /\ Agrees(file[c], box[c].cfg)
      BY <3>1 DEF Kept
    <3> QED
      BY <3>2 DEF Agrees, Matches
  <2> QED
    BY <2>1, <2>2 DEF BootsWhatIsAsked
<1> QED
  BY <1>1, StoreInvariant, RunInvariant, PTL
=============================================================================
