---------------------------- MODULE BridgeProofs ----------------------------
(***************************************************************************)
(* Theorems about the socket bridge and its event file, for any set of     *)
(* containers, UUIDs and writers, any limits, and any number of events.    *)
(***************************************************************************)
EXTENDS Bridge, FiniteSetTheorems, SequenceTheorems, TLAPS

-----------------------------------------------------------------------------
(***************************************************************************)
(* The event file.                                                         *)
(***************************************************************************)

(* Whatever is in the file, or is kept for it, has happened. *)
Happened ==
  /\ Range(file) \subseteq Range(hist) /\ Len(file) <= Len(hist)
  /\ \A w \in Writer : /\ Range(keep[w]) \subseteq Range(hist)
                       /\ Len(keep[w]) <= Len(hist) /\ Len(keep[w]) <= Retain

(* Somebody will see that the file is too long. *)
WillTrim(w) ==
  wpc[w] \in {"stat", "open", "trunc"} \/ (wpc[w] = "read" /\ woff[w] < Len(file))
Watched == order # "faults" /\ Len(file) > Cap => \E w \in Writer : WillTrim(w)

(* Writers that take turns are alone when they compact the file. *)
Alone == \A v, w \in Writer : wpc[v] # "idle" /\ wpc[w] # "idle" => v = w
InTurns ==
  order = "turns" =>
    /\ Alone
    /\ \A w \in Writer :
         /\ wpc[w] \in {"read", "trunc"} => Len(file) > Cap
         /\ wpc[w] = "read" => woff[w] = Len(file) - Retain
         /\ wpc[w] = "trunc" => keep[w] = SubSeq(file, Len(file) - Retain + 1, Len(file))
         /\ wpc[w] = "write" => file = <<>>

(* Then the times in the history follow the clock. *)
Clock ==
  /\ \A e \in Range(hist) : e.time <= now
  /\ \A w \in Writer : wtime[w] <= now
  /\ order = "turns" => \A w \in Writer : wpc[w] = "append" =>
       \A e \in Range(hist) : e.time <= wtime[w]

LogInv == LogTypeOK /\ Happened /\ Watched /\ InTurns /\ Clock

LogNext == Tick \/ \E w \in Writer : WriterStep(w) \/ Stamp(w) \/ GivesUp(w)

-----------------------------------------------------------------------------
LEMMA RangeAppend ==
  ASSUME NEW S, NEW s \in Seq(S), NEW e \in S
  PROVE  Range(Append(s, e)) = Range(s) \cup {e}
<1>1. Append(s, e) = s \o <<e>> /\ <<e>> \in Seq(S)
  BY AppendIsConcat
<1>2. Range(<<e>>) = {e}
  BY DEF Range
<1>3. Range(s \o <<e>>) = Range(s) \cup Range(<<e>>)
  BY <1>1, RangeConcatenation, ZenonT(40)
<1> QED BY <1>1, <1>2, <1>3, Zenon

LEMMA RangeSubSeq ==
  ASSUME NEW S, NEW s \in Seq(S), NEW m \in Nat \ {0}, NEW n \in 0..Len(s)
  PROVE  /\ SubSeq(s, m, n) \in Seq(S)
         /\ Len(SubSeq(s, m, n)) = IF m <= n THEN n - m + 1 ELSE 0
         /\ Range(SubSeq(s, m, n)) \subseteq Range(s)
<1> DEFINE t == SubSeq(s, m, n)
<1>1. /\ t \in Seq(S) /\ Len(t) = IF m <= n THEN n - m + 1 ELSE 0
      /\ \A i \in 1..n - m + 1 : t[i] = s[m + i - 1]
  <2>1. Len(s) \in Nat /\ \A i \in m..n : s[i] \in S
    BY ElementOfSeq, LenProperties
  <2> QED BY <2>1, SubSeqProperties
<1>2. \A i \in 1..Len(t) : t[i] = s[m + i - 1] /\ m + i - 1 \in 1..Len(s)
  BY <1>1
<1>3. Range(t) = {t[i] : i \in 1..Len(t)} /\ Range(s) = {s[i] : i \in 1..Len(s)}
  BY <1>1, RangeEquality
<1> QED BY <1>1, <1>2, <1>3

(* What a compaction reads to keep. *)
LEMMA KeptRead ==
  ASSUME LogTypeOK, NEW w \in Writer, ReadKept(w)
  PROVE  /\ keep'[w] \in Seq(Event) /\ keep' = [keep EXCEPT ![w] = keep'[w]]
         /\ Len(keep'[w]) <= Retain /\ Len(keep'[w]) <= Len(file)
         /\ Range(keep'[w]) \subseteq Range(file)
         /\ (woff[w] < Len(file) <=> keep'[w] # <<>>)
         /\ wpc' = [wpc EXCEPT ![w] = IF keep'[w] = <<>> THEN "idle" ELSE "trunc"]
         /\ woff[w] = Len(file) - Retain =>
              keep'[w] = SubSeq(file, Len(file) - Retain + 1, Len(file))
<1> DEFINE last == IF woff[w] + Retain < Len(file) THEN woff[w] + Retain ELSE Len(file)
           read == SubSeq(file, woff[w] + 1, last)
<1>1. /\ file \in Seq(Event) /\ Len(file) \in Nat /\ woff[w] \in Nat
      /\ keep \in [Writer -> Seq(Event)]
  BY LenProperties DEF LogTypeOK
<1>2. keep' = [keep EXCEPT ![w] = read] /\ keep'[w] = read
  BY <1>1 DEF ReadKept
<1>3. wpc' = [wpc EXCEPT ![w] = IF read = <<>> THEN "idle" ELSE "trunc"]
  BY DEF ReadKept, At
<1>4. last \in 0..Len(file) /\ woff[w] + 1 \in Nat \ {0}
  BY <1>1, LimitsAssumption
<1>5. /\ read \in Seq(Event) /\ Range(read) \subseteq Range(file)
      /\ Len(read) = IF woff[w] + 1 <= last THEN last - (woff[w] + 1) + 1 ELSE 0
  BY <1>1, <1>4, RangeSubSeq
<1>6. Len(read) <= Retain /\ Len(read) <= Len(file) /\ (woff[w] < Len(file) <=> Len(read) # 0)
  <2>1. \/ last = woff[w] + Retain /\ last < Len(file)
        \/ last = Len(file) /\ ~(woff[w] + Retain < Len(file))
    OBVIOUS
  <2>2. Retain \in Nat /\ 0 < Retain
    BY LimitsAssumption
  <2>3. Len(file) \in Nat /\ woff[w] \in Nat /\ last \in Nat
    BY <1>1, <1>4
  <2>4. Len(read) = IF woff[w] + 1 <= last THEN last - (woff[w] + 1) + 1 ELSE 0
    BY <1>5
  <2>5. ASSUME NEW o \in Nat, NEW f \in Nat, NEW r \in Nat, NEW l \in Nat, NEW k, 0 < r,
               (l = o + r /\ l < f) \/ (l = f /\ ~(o + r < f)),
               k = IF o + 1 <= l THEN l - (o + 1) + 1 ELSE 0
        PROVE  k <= r /\ k <= f /\ (o < f <=> k # 0)
    BY <2>5
  <2> HIDE DEF last, read
  <2>6. 0 < Retain
    BY <2>2
  <2> QED BY <2>1, <2>2, <2>3, <2>4, <2>5, <2>6, SMTT(40)
<1>7. read # <<>> <=> Len(read) # 0
  BY <1>5, EmptySeq
<1>8. woff[w] = Len(file) - Retain => read = SubSeq(file, Len(file) - Retain + 1, Len(file))
  BY <1>1, LimitsAssumption
<1> QED BY <1>2, <1>3, <1>5, <1>6, <1>7, <1>8

(* What it writes. *)
LEMMA KeptWritten ==
  ASSUME LogTypeOK, NEW w \in Writer, WriteKept(w)
  PROVE  /\ file' \in Seq(Event) /\ keep' = [keep EXCEPT ![w] = <<>>]
         /\ Len(file') = IF Len(keep[w]) < Len(file) THEN Len(file) ELSE Len(keep[w])
         /\ Range(file') \subseteq Range(keep[w]) \cup Range(file)
         /\ file = <<>> => file' = keep[w]
<1> DEFINE rest == SubSeq(file, Len(keep[w]) + 1, Len(file))
<1>1. /\ file \in Seq(Event) /\ Len(file) \in Nat
      /\ keep[w] \in Seq(Event) /\ Len(keep[w]) \in Nat
      /\ file' = keep[w] \o rest /\ keep' = [keep EXCEPT ![w] = <<>>]
  BY LenProperties DEF LogTypeOK, WriteKept
<1>2. /\ rest \in Seq(Event) /\ Range(rest) \subseteq Range(file)
      /\ Len(rest) = IF Len(keep[w]) + 1 <= Len(file) THEN Len(file) - Len(keep[w]) ELSE 0
  <2>1. Len(keep[w]) + 1 \in Nat \ {0} /\ Len(file) \in 0..Len(file)
    BY <1>1
  <2>2. /\ rest \in Seq(Event) /\ Range(rest) \subseteq Range(file)
        /\ Len(rest) = IF Len(keep[w]) + 1 <= Len(file)
                         THEN Len(file) - (Len(keep[w]) + 1) + 1 ELSE 0
    BY <1>1, <2>1, RangeSubSeq
  <2> HIDE DEF rest
  <2> QED BY <1>1, <2>2
<1> HIDE DEF rest
<1>3. /\ file' \in Seq(Event) /\ Len(file') = Len(keep[w]) + Len(rest)
      /\ Range(file') = Range(keep[w]) \cup Range(rest)
  <2>1. /\ keep[w] \o rest \in Seq(Event)
        /\ Len(keep[w] \o rest) = Len(keep[w]) + Len(rest)
    BY <1>1, <1>2, ConcatProperties, Zenon
  <2>2. Range(keep[w] \o rest) = Range(keep[w]) \cup Range(rest)
    BY <1>1, <1>2, RangeConcatenation, ZenonT(40)
  <2> QED BY <1>1, <2>1, <2>2, Zenon
<1>4. file = <<>> => file' = keep[w]
  <2>1. ASSUME file = <<>> PROVE rest = <<>>
    <3>1. Len(file) = 0
      BY <2>1, EmptySeq
    <3>2. Len(rest) = 0
      BY <1>1, <1>2, <3>1
    <3> QED BY <1>2, <3>2, EmptySeq
  <2>2. keep[w] \o <<>> = keep[w]
    BY <1>1, ConcatEmptySeq
  <2> QED BY <1>1, <2>1, <2>2
<1>5. Len(file') = IF Len(keep[w]) < Len(file) THEN Len(file) ELSE Len(keep[w])
  <2>1. Len(file) \in Nat /\ Len(keep[w]) \in Nat
    BY <1>1
  <2>2. ASSUME NEW f \in Nat, NEW k \in Nat
        PROVE  k + (IF k + 1 <= f THEN f - k ELSE 0) = IF k < f THEN f ELSE k
    OBVIOUS
  <2> QED BY <1>2, <1>3, <2>1, <2>2, Zenon
<1> QED BY <1>1, <1>2, <1>3, <1>4, <1>5, Zenon

(* A record that is appended is the newest event of file and history. *)
LEMMA Appended ==
  ASSUME LogTypeOK, NEW w \in Writer, AppendRecord(w)
  PROVE  \E e \in Event :
           /\ e.time = wtime[w]
           /\ hist' = Append(hist, e) /\ hist' \in Seq(Event) /\ Len(hist') = Len(hist) + 1
           /\ file' = Append(file, e) /\ file' \in Seq(Event) /\ Len(file') = Len(file) + 1
           /\ Range(hist') = Range(hist) \cup {e} /\ Range(file') = Range(file) \cup {e}
<1> DEFINE e == [id |-> Len(hist) + 1, time |-> wtime[w]]
<1>1. hist \in Seq(Event) /\ file \in Seq(Event) /\ Len(hist) \in Nat /\ Len(file) \in Nat
  BY LenProperties DEF LogTypeOK
<1>2. e \in Event /\ e.time = wtime[w]
  BY <1>1, LimitsAssumption DEF LogTypeOK, AppendRecord, Event
<1>3. hist' = Append(hist, e) /\ file' = Append(file, e)
  BY DEF AppendRecord
<1> HIDE DEF e
<1>4. /\ hist' \in Seq(Event) /\ Len(hist') = Len(hist) + 1
      /\ file' \in Seq(Event) /\ Len(file') = Len(file) + 1
  BY <1>1, <1>2, <1>3, AppendProperties
<1>5. Range(hist') = Range(hist) \cup {e} /\ Range(file') = Range(file) \cup {e}
  BY <1>1, <1>2, <1>3, RangeAppend
<1> QED BY <1>2, <1>3, <1>4, <1>5

LEMMA LogTypes ==
  ASSUME LogTypeOK, [LogNext]_logVars
  PROVE  LogTypeOK'
<1> USE DEF LogTypeOK, At
<1>0. /\ <<>> \in Seq(Event) /\ Len(file) \in Nat
  BY EmptySeq, LenProperties
<1>1. ASSUME NEW w \in Writer, AppendRecord(w) PROVE LogTypeOK'
  <2>1. hist' \in Seq(Event) /\ file' \in Seq(Event)
    BY <1>1, Appended
  <2> QED BY <1>1, <2>1 DEF AppendRecord
<1>2. ASSUME NEW w \in Writer, ReadKept(w) PROVE LogTypeOK'
  <2>1. keep'[w] \in Seq(Event) /\ keep' = [keep EXCEPT ![w] = keep'[w]]
    BY <1>2, KeptRead
  <2>2. keep' \in [Writer -> Seq(Event)]
    BY <2>1
  <2>3. wpc' \in [Writer -> {"idle", "append", "stat", "open", "read", "trunc", "write"}]
    BY <1>2 DEF ReadKept
  <2>4. UNCHANGED <<order, now, hist, file, wtime, woff>>
    BY <1>2 DEF ReadKept
  <2> QED BY <2>2, <2>3, <2>4
<1>3. ASSUME NEW w \in Writer, WriteKept(w) PROVE LogTypeOK'
  <2>1. file' \in Seq(Event) /\ keep' = [keep EXCEPT ![w] = <<>>]
    BY <1>3, KeptWritten
  <2>2. keep' \in [Writer -> Seq(Event)]
    BY <1>0, <2>1
  <2>3. /\ wpc' \in [Writer -> {"idle", "append", "stat", "open", "read", "trunc", "write"}]
        /\ UNCHANGED <<order, now, hist, wtime, woff>>
    BY <1>3 DEF WriteKept
  <2> QED BY <2>1, <2>2, <2>3
<1>4. ASSUME NEW w \in Writer, AppendFails(w) \/ Stat(w) PROVE LogTypeOK'
  BY <1>4 DEF AppendFails, Stat
<1>5. ASSUME NEW w \in Writer, OpenForTrim(w) PROVE LogTypeOK'
  <2>1. ~(Len(file) <= Cap) => Len(file) - Retain \in Nat
    BY <1>0, LimitsAssumption
  <2> QED BY <1>5, <2>1 DEF OpenForTrim
<1>6. ASSUME NEW w \in Writer, Truncate(w) PROVE LogTypeOK'
  BY <1>0, <1>6 DEF Truncate
<1>7. ASSUME NEW w \in Writer, Stamp(w) PROVE LogTypeOK'
  BY <1>7 DEF Stamp
<1>8. ASSUME NEW w \in Writer, GivesUp(w) PROVE LogTypeOK'
  BY <1>0, <1>8 DEF GivesUp
<1>9. CASE Tick
  BY <1>9, LimitsAssumption DEF Tick
<1>10. CASE UNCHANGED logVars
  BY <1>10 DEF logVars
<1> QED
  BY <1>1, <1>2, <1>3, <1>4, <1>5, <1>6, <1>7, <1>8, <1>9, <1>10 DEF LogNext, WriterStep

LEMMA HappenedKept ==
  ASSUME LogTypeOK, Happened, [LogNext]_logVars
  PROVE  Happened'
<1>t. /\ Len(hist) \in Nat /\ Len(file) \in Nat
      /\ keep \in [Writer -> Seq(Event)] /\ \A w \in Writer : Len(keep[w]) \in Nat
  BY LenProperties DEF LogTypeOK
<1>0. Range(<<>>) = {} /\ Len(<<>>) = 0 /\ Retain \in Nat
  BY LimitsAssumption, EmptySeq DEF Range
<1> USE DEF Happened
<1>1. ASSUME NEW w \in Writer, AppendRecord(w) PROVE Happened'
  <2>1. PICK e \in Event :
           /\ Len(hist') = Len(hist) + 1 /\ Len(file') = Len(file) + 1
           /\ Range(hist') = Range(hist) \cup {e} /\ Range(file') = Range(file) \cup {e}
    BY <1>1, Appended
  <2>2. UNCHANGED keep
    BY <1>1 DEF AppendRecord
  <2>3. Range(file') \subseteq Range(hist') /\ Len(file') <= Len(hist')
    BY <1>t, <2>1
  <2>4. ASSUME NEW v \in Writer
        PROVE  /\ Range(keep[v]) \subseteq Range(hist')
               /\ Len(keep[v]) <= Len(hist') /\ Len(keep[v]) <= Retain
    BY <1>t, <2>1
  <2> QED BY <2>2, <2>3, <2>4
<1>2. ASSUME NEW w \in Writer, ReadKept(w) PROVE Happened'
  <2>1. /\ keep' = [keep EXCEPT ![w] = keep'[w]]
        /\ Len(keep'[w]) <= Retain /\ Len(keep'[w]) <= Len(file)
        /\ keep'[w] \in Seq(Event) /\ Range(keep'[w]) \subseteq Range(file)
    BY <1>2, KeptRead
  <2>2. UNCHANGED <<file, hist>>
    BY <1>2 DEF ReadKept
  <2>3. Len(keep'[w]) <= Len(hist) /\ Range(keep'[w]) \subseteq Range(hist)
    <3>1. Len(keep'[w]) \in Nat
      BY <2>1, LenProperties
    <3> QED BY <1>t, <2>1, <3>1
  <2>4. \A v \in Writer : v # w => keep'[v] = keep[v]
    BY <1>t, <2>1
  <2> QED BY <2>1, <2>2, <2>3, <2>4
<1>3. ASSUME NEW w \in Writer, WriteKept(w) PROVE Happened'
  <2>1. /\ keep' = [keep EXCEPT ![w] = <<>>]
        /\ Len(file') = IF Len(keep[w]) < Len(file) THEN Len(file) ELSE Len(keep[w])
        /\ Range(file') \subseteq Range(keep[w]) \cup Range(file)
    BY <1>3, KeptWritten
  <2>2. UNCHANGED hist
    BY <1>3 DEF WriteKept
  <2>3. Len(file') <= Len(hist) /\ Range(file') \subseteq Range(hist)
    BY <2>1
  <2>4. \A v \in Writer : keep'[v] = keep[v] \/ keep'[v] = <<>>
    BY <1>t, <2>1
  <2> QED BY <1>t, <1>0, <2>2, <2>3, <2>4
<1>4. ASSUME NEW w \in Writer, Truncate(w) PROVE Happened'
  BY <1>t, <1>0, <1>4 DEF Truncate
<1>5. ASSUME NEW w \in Writer, GivesUp(w) PROVE Happened'
  <2>1. UNCHANGED <<file, hist>> /\ \A v \in Writer : keep'[v] = keep[v] \/ keep'[v] = <<>>
    BY <1>t, <1>5 DEF GivesUp
  <2> QED BY <1>t, <1>0, <2>1
<1>6. CASE \/ Tick \/ UNCHANGED logVars
           \/ \E w \in Writer : AppendFails(w) \/ Stat(w) \/ OpenForTrim(w) \/ Stamp(w)
  <2>1. UNCHANGED <<file, hist, keep>>
    BY <1>6 DEF Tick, logVars, AppendFails, Stat, OpenForTrim, Stamp
  <2> QED BY <2>1
<1> QED
  BY <1>1, <1>2, <1>3, <1>4, <1>5, <1>6 DEF LogNext, WriterStep

LEMMA WatchedKept ==
  ASSUME LogTypeOK, Happened, Watched, [LogNext]_logVars
  PROVE  Watched'
<1>t. /\ wpc \in [Writer -> {"idle", "append", "stat", "open", "read", "trunc", "write"}]
      /\ woff \in [Writer -> Nat] /\ Len(file) \in Nat
      /\ Cap \in Nat /\ Retain \in Nat /\ 0 < Retain /\ Retain <= Cap
  BY LenProperties, LimitsAssumption DEF LogTypeOK
<1> USE DEF At
<1> SUFFICES ASSUME order' # "faults", Len(file') > Cap
             PROVE  \E v \in Writer : WillTrim(v)'
  BY DEF Watched
<1>h. order # "faults"
  BY DEF LogNext, WriterStep, logVars, Tick, AppendRecord, AppendFails, Stat, OpenForTrim,
     ReadKept, Truncate, WriteKept, Stamp, GivesUp
<1>1. ASSUME NEW w \in Writer, AppendRecord(w) PROVE WillTrim(w)'
  BY <1>t, <1>1 DEF AppendRecord, WillTrim
<1>2. ASSUME NEW w \in Writer, Truncate(w) PROVE FALSE
  BY <1>t, <1>2, EmptySeq DEF Truncate
<1>3. ASSUME NEW w \in Writer, WriteKept(w) PROVE \E v \in Writer : WillTrim(v)'
  <2>1. Len(file') = IF Len(keep[w]) < Len(file) THEN Len(file) ELSE Len(keep[w])
    BY <1>3, KeptWritten
  <2>2. Len(keep[w]) <= Retain /\ Len(keep[w]) \in Nat
    BY LenProperties DEF Happened, LogTypeOK
  <2>3. Len(file') = Len(file)
    BY <1>t, <2>1, <2>2
  <2>4. PICK v \in Writer : WillTrim(v)
    BY <1>h, <2>3 DEF Watched
  <2>5. wpc'[v] = wpc[v] /\ woff' = woff
    BY <1>t, <1>3, <2>4 DEF WriteKept, WillTrim
  <2> QED BY <2>3, <2>4, <2>5 DEF WillTrim
<1>4. CASE UNCHANGED file
  <2>1. PICK v \in Writer : WillTrim(v)
    BY <1>h, <1>4 DEF Watched
  <2>2. ASSUME NEW w \in Writer, Stat(w) PROVE WillTrim(v)'
    BY <1>t, <1>4, <2>1, <2>2 DEF Stat, WillTrim
  <2>3. ASSUME NEW w \in Writer, OpenForTrim(w) PROVE WillTrim(v)'
    BY <1>t, <1>4, <2>1, <2>3 DEF OpenForTrim, WillTrim
  <2>4. ASSUME NEW w \in Writer, ReadKept(w) PROVE WillTrim(v)'
    <3>1. /\ woff[w] < Len(file) <=> keep'[w] # <<>>
          /\ wpc' = [wpc EXCEPT ![w] = IF keep'[w] = <<>> THEN "idle" ELSE "trunc"]
          /\ woff' = woff /\ wpc[w] = "read"
      BY <2>4, KeptRead DEF ReadKept
    <3> QED BY <1>t, <1>4, <2>1, <3>1 DEF WillTrim
  <2>5. ASSUME NEW w \in Writer, AppendFails(w) \/ Stamp(w) PROVE WillTrim(v)'
    BY <1>t, <1>4, <2>1, <2>5 DEF AppendFails, Stamp, WillTrim
  <2>6. ASSUME Tick \/ UNCHANGED logVars PROVE WillTrim(v)'
    BY <1>4, <2>1, <2>6 DEF Tick, logVars, WillTrim
  <2>7. ASSUME NEW w \in Writer, GivesUp(w) PROVE FALSE
    BY <1>h, <2>7 DEF GivesUp
  <2> QED BY <1>1, <1>2, <1>3, <2>2, <2>3, <2>4, <2>5, <2>6, <2>7 DEF LogNext, WriterStep
<1>5. UNCHANGED file \/ \E w \in Writer : AppendRecord(w) \/ Truncate(w) \/ WriteKept(w)
  BY DEF LogNext, WriterStep, logVars, Tick, AppendFails, Stat, OpenForTrim, ReadKept,
     Stamp, GivesUp
<1> QED BY <1>1, <1>2, <1>3, <1>4, <1>5

(* When writers take turns, a step finds all others idle. *)
LEMMA OthersIdle ==
  ASSUME LogTypeOK, InTurns, order = "turns",
         NEW w \in Writer, WriterStep(w) \/ Stamp(w)
  PROVE  /\ \A v \in Writer \ {w} : wpc[v] = "idle" /\ wpc'[v] = "idle"
         /\ UNCHANGED order
<1>1. wpc \in [Writer -> {"idle", "append", "stat", "open", "read", "trunc", "write"}]
  BY DEF LogTypeOK
<1>2. UNCHANGED order /\ \A v \in Writer \ {w} : wpc'[v] = wpc[v]
  BY <1>1 DEF WriterStep, AppendRecord, AppendFails, Stat, OpenForTrim, ReadKept, Truncate,
     WriteKept, Stamp, At
<1>3. wpc[w] # "idle" \/ Quiet
  BY DEF WriterStep, AppendRecord, AppendFails, Stat, OpenForTrim, ReadKept, Truncate,
     WriteKept, Stamp, At
<1>4. \A v \in Writer \ {w} : wpc[v] = "idle"
  BY <1>3 DEF Quiet, InTurns, Alone
<1> QED BY <1>2, <1>4

LEMMA InTurnsKept ==
  ASSUME LogTypeOK, InTurns, [LogNext]_logVars
  PROVE  InTurns'
<1>t. /\ wpc \in [Writer -> {"idle", "append", "stat", "open", "read", "trunc", "write"}]
      /\ woff \in [Writer -> Nat] /\ Len(file) \in Nat
      /\ keep \in [Writer -> Seq(Event)]
  BY LenProperties DEF LogTypeOK
<1>1. CASE Tick \/ UNCHANGED logVars
  BY <1>1 DEF Tick, logVars, InTurns, Alone
<1>2. ASSUME NEW w \in Writer, GivesUp(w) PROVE InTurns'
  BY <1>2 DEF GivesUp, InTurns
<1>3. ASSUME NEW w \in Writer, WriterStep(w) \/ Stamp(w) PROVE InTurns'
  <2> SUFFICES ASSUME order = "turns" PROVE InTurns'
    BY <1>3 DEF InTurns, WriterStep, AppendRecord, AppendFails, Stat, OpenForTrim,
       ReadKept, Truncate, WriteKept, Stamp
  <2>1. \A v \in Writer \ {w} : wpc'[v] = "idle"
    BY <1>3, OthersIdle
  <2>2. Alone'
    BY <2>1 DEF Alone
  <2>3. /\ wpc'[w] \in {"read", "trunc"} => Len(file') > Cap
        /\ wpc'[w] = "read" => woff'[w] = Len(file') - Retain
        /\ wpc'[w] = "trunc" => keep'[w] = SubSeq(file', Len(file') - Retain + 1, Len(file'))
        /\ wpc'[w] = "write" => file' = <<>>
    <3> USE <1>t DEF At
    <3>1. CASE AppendRecord(w) \/ AppendFails(w) \/ Stat(w) \/ WriteKept(w) \/ Stamp(w)
      <4>1. wpc'[w] \in {"stat", "open", "idle", "append"}
        BY <3>1 DEF AppendRecord, AppendFails, Stat, WriteKept, Stamp
      <4> QED BY <4>1
    <3>2. CASE OpenForTrim(w)
      BY <3>2, LimitsAssumption DEF OpenForTrim
    <3>3. CASE ReadKept(w)
      <4>1. /\ wpc[w] = "read" /\ file' = file
            /\ wpc' = [wpc EXCEPT ![w] = IF keep'[w] = <<>> THEN "idle" ELSE "trunc"]
            /\ woff[w] = Len(file) - Retain =>
                 keep'[w] = SubSeq(file, Len(file) - Retain + 1, Len(file))
        BY <3>3, KeptRead DEF ReadKept
      <4>2. wpc'[w] \in {"idle", "trunc"}
        BY <4>1
      <4>3. Len(file) > Cap /\ woff[w] = Len(file) - Retain
        BY <4>1 DEF InTurns
      <4> QED BY <4>1, <4>2, <4>3
    <3>4. CASE Truncate(w)
      BY <3>4 DEF Truncate
    <3> QED BY <1>3, <3>1, <3>2, <3>3, <3>4 DEF WriterStep
  <2> QED BY <2>1, <2>2, <2>3 DEF InTurns
<1> QED BY <1>1, <1>2, <1>3 DEF LogNext

LEMMA ClockKept ==
  ASSUME LogTypeOK, InTurns, Clock, [LogNext]_logVars
  PROVE  Clock'
<1>t. /\ wpc \in [Writer -> {"idle", "append", "stat", "open", "read", "trunc", "write"}]
      /\ wtime \in [Writer -> 0..MaxTime] /\ now \in 0..MaxTime /\ MaxTime \in Nat
      /\ \A e \in Range(hist) : e.time \in Nat
  <2>1. Range(hist) \subseteq Event
    BY RangeOfSeq DEF LogTypeOK
  <2> QED BY <2>1, LimitsAssumption DEF LogTypeOK, Event
<1> USE DEF Clock, At
<1>1. ASSUME NEW w \in Writer, AppendRecord(w) PROVE Clock'
  <2>1. PICK e \in Event : e.time = wtime[w] /\ Range(hist') = Range(hist) \cup {e}
    BY <1>1, Appended
  <2>2. UNCHANGED <<now, wtime, order>> /\ wpc' = [wpc EXCEPT ![w] = "stat"]
    BY <1>1 DEF AppendRecord
  <2>3. \A d \in Range(hist') : d.time <= now
    BY <2>1
  <2>4. ASSUME order = "turns" PROVE \A v \in Writer : wpc'[v] # "append"
    <3>1. \A v \in Writer \ {w} : wpc'[v] = "idle"
      BY <1>1, <2>4, OthersIdle DEF WriterStep
    <3> QED BY <1>t, <2>2, <3>1
  <2> QED BY <2>2, <2>3, <2>4
<1>2. ASSUME NEW w \in Writer, Stamp(w) PROVE Clock'
  BY <1>t, <1>2 DEF Stamp
<1>3. CASE Tick
  <2>1. now' = now + 1 /\ UNCHANGED <<hist, order, wpc, wtime>>
    BY <1>3 DEF Tick
  <2> QED BY <1>t, <2>1
<1>4. CASE UNCHANGED logVars
  BY <1>4 DEF logVars
<1>5. ASSUME NEW w \in Writer,
             \/ AppendFails(w) \/ Stat(w) \/ OpenForTrim(w) \/ ReadKept(w) \/ Truncate(w)
             \/ WriteKept(w) \/ GivesUp(w)
      PROVE  Clock'
  <2>1. /\ UNCHANGED <<now, hist, order, wtime>>
        /\ \A v \in Writer : wpc'[v] = "append" => wpc[v] = "append"
    BY <1>t, <1>5 DEF AppendFails, Stat, OpenForTrim, ReadKept, Truncate, WriteKept, GivesUp
  <2> QED BY <2>1
<1> QED
  BY <1>1, <1>2, <1>3, <1>4, <1>5 DEF LogNext, WriterStep

-----------------------------------------------------------------------------
(* A writer and the clock are all that touches the event file. *)
LEMMA LogSteps ==
  ASSUME [Next]_vars
  PROVE  [LogNext]_logVars
<1> USE DEF LogNext
<1>1. CASE Writing
  BY <1>1 DEF Writing
<1>2. CASE OthersRecord
  BY <1>2 DEF OthersRecord
<1>3. CASE Record
  BY <1>3, BridgeAssumption DEF Record
<1>4. CASE \/ Accept \/ Header \/ Payload \/ Prune \/ HintEnds \/ PidsEnds \/ ConfsEnds
           \/ Exact \/ ScanEnds \/ Check
  BY <1>4 DEF Accept, Header, Payload, Prune, HintEnds, PidsEnds, ConfsEnds, Exact, ScanEnds,
     Check
<1>5. CASE \/ Act \/ Recheck \/ Recorded \/ PollNext \/ PollEnds \/ Close
           \/ \E n \in Name : HintNext(n) \/ PidsNext(n) \/ ConfsNext(n) \/ ScanNext(n)
           \/ \E n \in Name : EnvMoves(n)
  BY <1>5 DEF Act, Recheck, Recorded, PollNext, PollEnds, Close, HintNext, PidsNext,
     ConfsNext, ScanNext, EnvMoves
<1>6. CASE UNCHANGED vars
  BY <1>6 DEF vars
<1> QED
  BY <1>1, <1>2, <1>3, <1>4, <1>5, <1>6 DEF Next, BridgeSteps

LEMMA LogStarts == Init => LogInv
<1> SUFFICES ASSUME Init PROVE LogInv
  OBVIOUS
<1>0. /\ <<>> \in Seq(Event) /\ Len(<<>>) = 0 /\ Range(<<>>) = {}
  BY EmptySeq DEF Range
<1>1. LogTypeOK
  BY <1>0, LimitsAssumption DEF Init, LogInit, LogTypeOK
<1>2. Happened
  BY <1>0, LimitsAssumption DEF Init, LogInit, Happened
<1>3. Watched /\ InTurns /\ Clock
  BY <1>0, LimitsAssumption DEF Init, LogInit, Watched, InTurns, Alone, Clock
<1> QED BY <1>1, <1>2, <1>3 DEF LogInv

LEMMA LogKept ==
  ASSUME LogInv, [LogNext]_logVars
  PROVE  LogInv'
BY LogTypes, HappenedKept, WatchedKept, InTurnsKept, ClockKept DEF LogInv

(* The inductive invariant of the event file. *)
THEOREM LogInvariant == Spec => []LogInv
BY LogStarts, LogSteps, LogKept, PTL DEF Spec

-----------------------------------------------------------------------------
(* What the file keeps, as a function of the variables. *)
KeptOf(o, p, k, f) ==
  IF o = "turns" /\ \E w \in Writer : p[w] = "write"
    THEN k[CHOOSE w \in Writer : p[w] = "write"]
    ELSE f

LEMMA KeptInFile ==
  ASSUME NEW o, NEW p, NEW k, NEW f, o # "turns" \/ \A w \in Writer : p[w] # "write"
  PROVE  KeptOf(o, p, k, f) = f
BY DEF KeptOf

LEMMA KeptByWriter ==
  ASSUME NEW o, NEW p, NEW k, NEW f, NEW w \in Writer, o = "turns",
         p[w] = "write", \A v \in Writer \ {w} : p[v] # "write"
  PROVE  KeptOf(o, p, k, f) = k[w]
<1>1. (CHOOSE v \in Writer : p[v] = "write") = w
  OBVIOUS
<1> QED BY <1>1 DEF KeptOf

LEMMA KeptIs ==
  /\ Kept = KeptOf(order, wpc, keep, file)
  /\ Kept' = KeptOf(order', wpc', keep', file')
BY DEF Kept, KeptOf

(* The history only grows. *)
LEMMA HistoryGrows ==
  ASSUME LogTypeOK, [LogNext]_logVars
  PROVE  SubSeq(hist', 1, Len(hist)) = hist /\ UNCHANGED order
<1>1. hist \in Seq(Event) /\ Len(hist) \in Nat
  BY LenProperties DEF LogTypeOK
<1>2. UNCHANGED order
  BY DEF LogNext, WriterStep, logVars, Tick, AppendRecord, AppendFails, Stat, OpenForTrim,
     ReadKept, Truncate, WriteKept, Stamp, GivesUp
<1>3. UNCHANGED hist \/ \E w \in Writer : AppendRecord(w)
  BY DEF LogNext, WriterStep, logVars, Tick, AppendFails, Stat, OpenForTrim, ReadKept,
     Truncate, WriteKept, Stamp, GivesUp
<1>4. CASE UNCHANGED hist
  BY <1>1, <1>2, <1>4, SubSeqFull
<1>5. ASSUME NEW w \in Writer, AppendRecord(w)
      PROVE  SubSeq(hist', 1, Len(hist)) = hist
  <2>1. PICK e \in Event : hist' = Append(hist, e)
    BY <1>5, Appended
  <2>2. /\ hist' \in Seq(Event) /\ Len(hist') = Len(hist) + 1
        /\ \A i \in 1..Len(hist) : hist'[i] = hist[i]
    BY <1>1, <2>1, AppendProperties
  <2> DEFINE s == SubSeq(hist', 1, Len(hist))
  <2>3. /\ s \in Seq(Event)
        /\ Len(s) = IF 1 <= Len(hist) THEN Len(hist) - 1 + 1 ELSE 0
        /\ \A i \in 1..Len(hist) - 1 + 1 : s[i] = hist'[1 + i - 1]
    <3>1. \A i \in 1..Len(hist) : hist'[i] \in Event
      BY <1>1, <2>2, ElementOfSeq
    <3> QED BY <1>1, <3>1, SubSeqProperties
  <2> HIDE DEF s
  <2>4. Len(s) = Len(hist) /\ \A i \in 1..Len(hist) : s[i] = hist[i]
    BY <1>1, <2>2, <2>3
  <2>5. s = hist
    BY <1>1, <2>3, <2>4, SeqEqual
  <2> QED BY <2>5 DEF s
<1> QED BY <1>2, <1>3, <1>4, <1>5

(* Every step of the event file is one of its history, or none. *)
LEMMA HistoryStep ==
  ASSUME LogInv, [LogNext]_logVars
  PROVE  [History!Next]_(History!vars)
<1>t. LogTypeOK /\ Watched /\ InTurns
  BY DEF LogInv
<1>w. wpc \in [Writer -> {"idle", "append", "stat", "open", "read", "trunc", "write"}]
      /\ keep \in [Writer -> Seq(Event)]
  BY <1>t DEF LogTypeOK
<1>g. SubSeq(hist', 1, Len(hist)) = hist /\ UNCHANGED order
  BY <1>t, HistoryGrows
<1>1. CASE order # "turns"
  <2>1. Range(file') \subseteq Range(hist')
    BY LogKept DEF LogInv, Happened
  <2>2. Kept' = file'
    BY <1>1, <1>g, KeptIs, KeptInFile
  <2>3. History!Range(file') = Range(file') /\ History!Range(hist') = Range(hist')
    BY DEF History!Range, Range
  <2>4. History!Disorder
    BY <1>1, <1>g, <2>1, <2>2, <2>3 DEF History!Disorder
  <2> QED BY <2>4 DEF History!Next
<1>2. CASE order = "turns"
  <2>1. ASSUME NEW w \in Writer, AppendRecord(w)
        PROVE  History!Happens
    <3>1. PICK e \in Event : /\ hist' = Append(hist, e) /\ file' = Append(file, e)
                             /\ Len(hist') = Len(hist) + 1
      BY <1>t, <2>1, Appended
    <3>2. wpc[w] = "append" /\ wpc'[w] = "stat"
      BY <1>w, <2>1 DEF AppendRecord, At
    <3>3. \A v \in Writer \ {w} : wpc[v] = "idle" /\ wpc'[v] = "idle"
      BY <1>t, <1>2, <2>1, OthersIdle DEF WriterStep
    <3>4. Kept = file /\ Kept' = file'
      <4>1. \A v \in Writer : wpc[v] # "write" /\ wpc'[v] # "write"
        BY <3>2, <3>3
      <4> QED BY <4>1, KeptIs, KeptInFile
    <3>5. Len(file) <= Cap
      <4>1. Len(file) \in Nat /\ Cap \in Nat
        BY <1>t, LenProperties, LimitsAssumption DEF LogTypeOK
      <4>2. \A v \in Writer : ~WillTrim(v)
        BY <3>2, <3>3 DEF WillTrim
      <4> QED BY <1>t, <1>2, <4>1, <4>2 DEF Watched
    <3>6. hist'[Len(hist')] = e
      BY <1>t, <3>1, AppendProperties DEF LogTypeOK
    <3> QED BY <1>g, <3>1, <3>4, <3>5, <3>6 DEF History!Happens
  <2>2. ASSUME NEW w \in Writer, Truncate(w)
        PROVE  History!Compact
    <3>1. wpc[w] = "trunc" /\ wpc'[w] = "write" /\ UNCHANGED <<hist, keep>>
      BY <1>w, <2>2 DEF Truncate, At
    <3>2. \A v \in Writer \ {w} : wpc[v] = "idle" /\ wpc'[v] = "idle"
      BY <1>t, <1>2, <2>2, OthersIdle DEF WriterStep
    <3>3. Len(file) > Cap /\ keep[w] = SubSeq(file, Len(file) - Retain + 1, Len(file))
      BY <1>t, <1>2, <3>1 DEF InTurns
    <3>4. Kept = file
      BY <3>1, <3>2, KeptIs, KeptInFile
    <3>5. Kept' = keep[w]
      <4>1. order' = "turns" /\ wpc'[w] = "write" /\ \A v \in Writer \ {w} : wpc'[v] # "write"
        BY <1>2, <1>g, <3>1, <3>2
      <4>2. KeptOf(order', wpc', keep', file') = keep'[w]
        BY <4>1, KeptByWriter
      <4> QED BY <3>1, <4>2, KeptIs
    <3> QED BY <1>g, <3>1, <3>3, <3>4, <3>5 DEF History!Compact
  <2>3. ASSUME NEW w \in Writer, WriteKept(w)
        PROVE  UNCHANGED <<hist, Kept>>
    <3>1. wpc[w] = "write" /\ wpc'[w] = "idle" /\ UNCHANGED hist
      BY <1>w, <2>3 DEF WriteKept, At
    <3>2. \A v \in Writer \ {w} : wpc[v] = "idle" /\ wpc'[v] = "idle"
      BY <1>t, <1>2, <2>3, OthersIdle DEF WriterStep
    <3>3. file' = keep[w]
      BY <1>t, <1>2, <2>3, <3>1, KeptWritten DEF InTurns
    <3>4. Kept = keep[w]
      BY <1>2, <3>1, <3>2, KeptIs, KeptByWriter
    <3>5. Kept' = file'
      BY <3>1, <3>2, KeptIs, KeptInFile
    <3> QED BY <3>1, <3>3, <3>4, <3>5
  <2>4. ASSUME NEW w \in Writer,
               AppendFails(w) \/ Stat(w) \/ OpenForTrim(w) \/ ReadKept(w) \/ Stamp(w)
        PROVE  UNCHANGED <<hist, Kept>>
    <3>1. UNCHANGED <<hist, file>> /\ wpc[w] # "write" /\ wpc'[w] # "write"
      BY <1>w, <2>4 DEF AppendFails, Stat, OpenForTrim, ReadKept, Stamp, At
    <3>2. \A v \in Writer \ {w} : wpc[v] = "idle" /\ wpc'[v] = "idle"
      BY <1>t, <1>2, <2>4, OthersIdle DEF WriterStep
    <3>3. Kept = file /\ Kept' = file'
      BY <3>1, <3>2, KeptIs, KeptInFile
    <3> QED BY <3>1, <3>3
  <2>5. CASE Tick \/ UNCHANGED logVars
    <3>1. UNCHANGED <<hist, file, wpc, keep>>
      BY <2>5 DEF Tick, logVars
    <3> QED BY <1>g, <3>1 DEF Kept, History!vars
  <2>6. ASSUME NEW w \in Writer, GivesUp(w) PROVE FALSE
    BY <1>2, <2>6 DEF GivesUp
  <2>7. UNCHANGED <<hist, Kept>> => UNCHANGED History!vars
    BY <1>g DEF History!vars
  <2> QED
    BY <2>1, <2>2, <2>3, <2>4, <2>5, <2>6, <2>7 DEF LogNext, WriterStep, History!Next
<1> QED BY <1>1, <1>2

(***************************************************************************)
(* The event file implements its history: when writers take turns, its     *)
(* readers find the newest Retain events in order, also across a           *)
(* compaction; without turns every record is still an event.               *)
(***************************************************************************)
THEOREM FileImplementsHistory == Spec => HistorySpec
<1>1. Init => History!Init
  <2> SUFFICES ASSUME Init PROVE History!Init
    OBVIOUS
  <2>1. hist = <<>> /\ file = <<>> /\ \A w \in Writer : wpc[w] # "write"
    BY DEF Init, LogInit
  <2>2. Kept = <<>>
    BY <2>1 DEF Kept
  <2> QED BY <2>1, <2>2 DEF History!Init
<1> QED
  BY <1>1, LogInvariant, LogSteps, HistoryStep, PTL DEF Spec, HistorySpec, History!Spec

-----------------------------------------------------------------------------
(***************************************************************************)
(* The bridge: where it is in a request, and what it may hold there.       *)
(***************************************************************************)
Report == [name : Name, runs : BOOLEAN]
Lists == {"list", "listall"}
Begin == {"accept", "header", "payload"}
Resolving == {"exact", "scan", "check", "act", "recheck"}

(* The containers. *)
System ==
  /\ topic \in {"list", "ref", "events", "log"}
  /\ conf \subseteq Name /\ uuid \in Uuids
  /\ run \in [Name -> BOOLEAN] /\ pidf \in [Name -> {"none", "live", "dead"}]

(* A handler is only entered for its opcodes, with a request in order. *)
Control ==
  /\ pc \in {"accept", "header", "payload", "hint", "prune", "pids", "confs", "exact",
             "scan", "check", "act", "recheck", "record", "recording", "poll", "sent"}
  /\ left \subseteq Name /\ seen \subseteq Name /\ steady \subseteq Name
  /\ cur \in Name \union {None}
  /\ resp \in Status \union {"none"} /\ cnt \in Nat
  /\ req.fault \in {"none", "silent", "refused", "badheader", "badpayload"}
  /\ pc = "payload" => req.fault \in {"none", "badpayload"}
  /\ IF pc = "accept" THEN req = NoRequest ELSE req.op \in Ops[topic]
  /\ pc \in Begin => cur = None /\ seen = {} /\ resp = "none"
  /\ pc \notin Begin \union {"sent"} => resp = "none" /\ req.fault = "none"
  /\ pc \in {"hint", "prune"} => req.op \in {"info"} \union Lists
  /\ pc \in {"prune", "check", "act", "recheck"} => cur \in Name
  /\ pc = "pids" => req.op \in Lists
  /\ pc = "confs" => req.op \in {"listall", "images"}
  /\ pc \in Resolving => req.op \in Ops["ref"]
  /\ pc = "exact" => cur = None /\ seen = {}
  /\ pc \in {"record", "recording"} => req.op = "restart"
  /\ pc = "poll" => req.op \in Ops["events"]

(* The array grows within the payload. *)
Arrays ==
  /\ out \in IF topic = "events" THEN Seq(Event) ELSE Seq(Report)
  /\ Len(out) <= cap /\ cap \in 0..Room
  /\ pc # "accept" => FirstCap <= cap
  /\ pc \in Begin \union {"hint", "prune"} \union Resolving => out = <<>>

LEMMA OpsAre ==
  /\ Ops["list"] = {"ping", "info", "list", "listall", "images", "unknown"}
  /\ Ops["ref"] = {"inspect", "start", "stop", "restart"}
  /\ Ops["events"] = {"poll", "pollall"} /\ Ops["log"] = {"ping"}
BY DEF Ops

(* A step of something else than the bridge. *)
LEMMA OthersStep ==
  ASSUME System, Control, \/ Writing \/ OthersRecord \/ UNCHANGED vars
                          \/ \E n \in Name : EnvMoves(n)
  PROVE  /\ UNCHANGED <<topic, conf, uuid, pc, req, seen, out, cap, cnt, cur, resp, pos,
                        got, since>>
         /\ left' \subseteq left /\ steady' \subseteq steady
         /\ run' \in [Name -> BOOLEAN] /\ pidf' \in [Name -> {"none", "live", "dead"}]
<1>1. CASE Writing \/ OthersRecord \/ UNCHANGED vars
  BY <1>1 DEF Writing, OthersRecord, sysVars, srvVars, vars, cliVars, System
<1>2. ASSUME NEW n \in Name, EnvMoves(n)
      PROVE  /\ UNCHANGED <<topic, conf, uuid, pc, req, seen, out, cap, cnt, cur, resp, pos,
                            got, since>>
             /\ left' \subseteq left /\ steady' \subseteq steady
             /\ run' \in [Name -> BOOLEAN] /\ pidf' \in [Name -> {"none", "live", "dead"}]
  <2>1. PICK r \in BOOLEAN, p \in {"none", "live", "dead"} : Becomes(n, r, p)
    BY <1>2 DEF EnvMoves
  <2>2. left' \subseteq left
    BY <2>1 DEF Becomes
  <2>3. run' \in [Name -> BOOLEAN] /\ pidf' \in [Name -> {"none", "live", "dead"}]
    BY <2>1 DEF Becomes, System
  <2> QED BY <1>2, <2>2, <2>3 DEF EnvMoves, cliVars
<1> QED BY <1>1, <1>2

LEMMA SystemKept ==
  ASSUME System, Control, [Next]_vars
  PROVE  System'
<1> USE DEF System, sysVars, Heals, is_container_running, Alive
<1>1. CASE \/ Writing \/ OthersRecord \/ UNCHANGED vars \/ \E n \in Name : EnvMoves(n)
  BY <1>1, OthersStep
<1>2. CASE \/ Accept \/ Header \/ Payload \/ HintEnds \/ PidsEnds \/ ConfsEnds \/ Exact
           \/ ScanEnds \/ Record \/ Recorded \/ PollNext \/ PollEnds \/ Close
  BY <1>2 DEF Accept, Header, Payload, HintEnds, PidsEnds, ConfsEnds, Exact, ScanEnds,
     Record, Recorded, PollNext, PollEnds, Close
<1>3. CASE Prune \/ Check \/ Recheck
  BY <1>3 DEF Prune, Check, Recheck, Control
<1>4. CASE Act
  BY <1>4 DEF Act, Becomes, Control
<1>5. ASSUME NEW n \in Name, HintNext(n) \/ PidsNext(n) \/ ConfsNext(n) \/ ScanNext(n)
      PROVE  System'
  BY <1>5 DEF HintNext, PidsNext, ConfsNext, ScanNext
<1> QED
  BY <1>1, <1>2, <1>3, <1>4, <1>5 DEF Next, BridgeSteps

(* Which way a request goes once its payload is read. *)
LEMMA PayloadVerdict ==
  ASSUME System, Control, Payload
  PROVE  /\ pc = "payload"
         /\ \/ /\ pc' = "sent"
               /\ \/ resp' = "UNSUPPORTED" /\ req.op = "unknown"
                  \/ resp' = "BAD_REQUEST" /\ req.fault = "badpayload"
                  \/ resp' = "OK" /\ req.op = "ping"
            \/ /\ resp' = resp /\ req.fault = "none"
               /\ \/ pc' = "hint" /\ req.op \in {"info", "list", "listall"}
                  \/ pc' = "confs" /\ req.op = "images"
                  \/ pc' = "exact" /\ req.op \in Ops["ref"]
                  \/ pc' = "poll" /\ req.op \in Ops["events"]
<1> USE OpsAre DEF Goto, Reply
<1>1. /\ pc = "payload" /\ req.fault \in {"none", "badpayload"}
      /\ req.op \in Ops["list"] \union Ops["ref"] \union Ops["events"] \union Ops["log"]
  BY DEF Payload, Control, System
<1>2. CASE req.op = "unknown"
  BY <1>1, <1>2 DEF Payload
<1>3. CASE req.op # "unknown" /\ req.fault = "badpayload"
  BY <1>1, <1>3 DEF Payload
<1>4. CASE req.op # "unknown" /\ req.fault = "none"
  <2>1. CASE req.op = "ping"
    BY <1>1, <1>4, <2>1 DEF Payload
  <2>2. CASE req.op \in {"info", "list", "listall"}
    BY <1>1, <1>4, <2>2 DEF Payload
  <2>3. CASE req.op = "images"
    BY <1>1, <1>4, <2>3 DEF Payload
  <2>4. CASE req.op \in Ops["ref"]
    BY <1>1, <1>4, <2>4 DEF Payload
  <2>5. CASE req.op \in Ops["events"]
    BY <1>1, <1>4, <2>5 DEF Payload
  <2> QED BY <1>1, <1>4, <2>1, <2>2, <2>3, <2>4, <2>5
<1> QED BY <1>1, <1>2, <1>3, <1>4

(* What becomes of a list once its containers are counted. *)
LEMMA HintVerdict ==
  ASSUME HintEnds, cnt \in Nat
  PROVE  \/ req.op = "info" /\ pc' = "sent" /\ resp' = "OK" /\ cap' = cap
         \/ /\ req.op # "info" /\ cnt > MaxRec
            /\ pc' = "sent" /\ resp' = "INTERNAL_ERROR" /\ cap' = cap
         \/ /\ req.op # "info" /\ cnt <= MaxRec /\ pc' = "pids" /\ resp' = resp
            /\ cap' = IF cnt > FirstCap THEN cnt ELSE FirstCap
<1>t. MaxRec \in Nat /\ FirstCap \in Nat
  BY BridgeAssumption
<1>1. CASE req.op = "info"
  BY <1>1 DEF HintEnds, Reply, Goto
<1>2. CASE req.op # "info" /\ cnt > MaxRec
  BY <1>2, <1>t DEF HintEnds, Reply, Goto
<1>3. CASE req.op # "info" /\ cnt <= MaxRec
  <2>1. ~(cnt > MaxRec)
    BY <1>3, <1>t
  <2> QED BY <1>3, <1>t, <2>1 DEF HintEnds, Reply, Goto
<1> QED BY <1>1, <1>2, <1>3, <1>t

LEMMA ControlKept ==
  ASSUME System, Control, [Next]_vars
  PROVE  Control'
<1> USE OpsAre DEF Control, Begin, Resolving, Lists, Reply, Goto, sysVars, cliVars, System,
        Status
<1>1. CASE \/ Writing \/ OthersRecord \/ UNCHANGED vars \/ \E n \in Name : EnvMoves(n)
  BY <1>1, OthersStep
<1>2. CASE Accept
  <2>1. /\ req'.op \in Ops[topic]
        /\ req'.fault \in {"none", "silent", "refused", "badheader", "badpayload"}
    BY <1>2 DEF Accept, Requests
  <2> QED BY <1>2, <2>1 DEF Accept
<1>3. CASE Header
  BY <1>3 DEF Header
<1>4. CASE Payload
  <2>1. left' \subseteq Name
    BY <1>4 DEF Payload
  <2>2. UNCHANGED <<topic, req, seen, cur, steady, cnt>>
    BY <1>4 DEF Payload
  <2> QED BY <1>4, <2>1, <2>2, PayloadVerdict
<1>5. ASSUME NEW n \in Name, HintNext(n) PROVE Control'
  BY <1>5 DEF HintNext
<1>6. CASE Prune
  BY <1>6 DEF Prune
<1>7. CASE HintEnds
  <2>1. left' \subseteq Name /\ seen' = {}
    BY <1>7 DEF HintEnds
  <2>2. /\ pc = "hint" /\ UNCHANGED <<topic, req, cur, steady>>
        /\ \/ pc' = "sent" /\ resp' \in Status
           \/ pc' = "pids" /\ req.op # "info" /\ UNCHANGED resp
    BY <1>7, HintVerdict DEF HintEnds
  <2> QED BY <1>7, <2>1, <2>2 DEF HintEnds
<1>8. ASSUME NEW n \in Name, PidsNext(n) PROVE Control'
  BY <1>8 DEF PidsNext, Emit
<1>9. CASE PidsEnds
  BY <1>9 DEF PidsEnds
<1>10. ASSUME NEW n \in Name, ConfsNext(n) PROVE Control'
  BY <1>10 DEF ConfsNext, Emit
<1>11. CASE ConfsEnds
  BY <1>11 DEF ConfsEnds
<1>12. CASE Exact
  BY <1>12 DEF Exact
<1>13. ASSUME NEW n \in Name, ScanNext(n) PROVE Control'
  BY <1>13, BridgeAssumption DEF ScanNext
<1>14. CASE ScanEnds
  BY <1>14 DEF ScanEnds
<1>15. CASE Check
  BY <1>15 DEF Check
<1>16. CASE Act
  BY <1>16 DEF Act, Becomes
<1>17. CASE Recheck
  BY <1>17 DEF Recheck
<1>18. CASE Record
  BY <1>18 DEF Record
<1>19. CASE Recorded
  BY <1>19 DEF Recorded
<1>20. CASE PollNext
  BY <1>20 DEF PollNext, Emit
<1>21. CASE PollEnds
  BY <1>21 DEF PollEnds
<1>22. CASE Close
  BY <1>22 DEF Close, NoRequest
<1> QED
  BY <1>1, <1>2, <1>3, <1>4, <1>5, <1>6, <1>7, <1>8, <1>9, <1>10, <1>11, <1>12, <1>13, <1>14,
     <1>15, <1>16, <1>17, <1>18, <1>19, <1>20, <1>21, <1>22 DEF Next, BridgeSteps

LEMMA RoomIs ==
  ASSUME System
  PROVE  Room \in Nat /\ FirstCap \in Nat /\ 0 < FirstCap /\ FirstCap <= Room
BY BridgeAssumption DEF Room, System

(* A record is appended, or the request fails for want of room. *)
LEMMA Emitted ==
  ASSUME System, NEW S, out \in Seq(S), NEW r \in S, NEW next,
         Len(out) <= cap, cap \in 0..Room, FirstCap <= cap, Emit(r, next)
  PROVE  /\ out' \in Seq(S) /\ Len(out') <= cap' /\ cap' \in 0..Room /\ cap <= cap'
         /\ \/ /\ pc' = next /\ resp' = resp /\ out' = Append(out, r)
               /\ Len(out') = Len(out) + 1 /\ Range(out') = Range(out) \cup {r}
               /\ \A i \in 1..Len(out) : out'[i] = out[i]
               /\ out'[Len(out) + 1] = r
            \/ /\ pc' = "sent" /\ resp' = "INTERNAL_ERROR" /\ out' = out
               /\ 2 * Len(out) > Room
<1>1. Room \in Nat /\ Len(out) \in Nat /\ cap \in Nat
  BY RoomIs, LenProperties
<1>2. CASE Len(out) < cap \/ 2 * cap <= Room
  <2>1. /\ out' = Append(out, r) /\ pc' = next /\ resp' = resp
        /\ cap' = IF Len(out) < cap THEN cap ELSE 2 * cap
    BY <1>2 DEF Emit, Goto
  <2>2. /\ out' \in Seq(S) /\ Len(out') = Len(out) + 1
        /\ \A i \in 1..Len(out) : out'[i] = out[i]
        /\ out'[Len(out) + 1] = r
    BY <2>1, AppendProperties
  <2>3. Range(out') = Range(out) \cup {r}
    BY <2>1, RangeAppend
  <2>4. Len(out') <= cap' /\ cap' \in 0..Room /\ cap <= cap'
    <3>1. CASE Len(out) < cap
      BY <1>1, <2>1, <2>2, <3>1
    <3>2. CASE ~(Len(out) < cap)
      <4>1. Len(out) = cap /\ cap' = 2 * cap /\ 2 * cap <= Room
        BY <1>1, <1>2, <2>1, <3>2
      <4> QED BY <1>1, <2>2, <4>1, RoomIs
    <3> QED BY <3>1, <3>2
  <2> QED BY <2>1, <2>2, <2>3, <2>4
<1>3. CASE ~(Len(out) < cap \/ 2 * cap <= Room)
  BY <1>1, <1>3 DEF Emit, Goto, Reply
<1> QED BY <1>2, <1>3

LEMMA ArraysKept ==
  ASSUME System, Control, Arrays, LogInv, pos \in Nat, [Next]_vars
  PROVE  Arrays'
<1>t. /\ topic' = topic /\ Room' = Room
      /\ Room \in Nat /\ FirstCap \in Nat /\ 0 < FirstCap /\ FirstCap <= Room
  <2>1. topic' = topic
    BY OthersStep DEF Next, BridgeSteps, sysVars, Accept, Header, Payload, Prune, HintEnds,
       PidsEnds, ConfsEnds, Exact, ScanEnds, Record, Recorded, PollNext, PollEnds, Close,
       Check, Recheck, Act, HintNext, PidsNext, ConfsNext, ScanNext
  <2> QED BY <2>1, RoomIs DEF Room
<1>e. <<>> \in Seq(Event) /\ <<>> \in Seq(Report) /\ Len(<<>>) = 0
  BY EmptySeq
<1>l. cap \in Nat /\ Len(out) \in Nat
  BY <1>t, LenProperties DEF Arrays
<1> USE OpsAre DEF Arrays, Begin, Resolving, Lists, Reply, Goto
<1>1. CASE UNCHANGED <<out, cap, pc, topic>>
  BY <1>1, <1>t
<1>2. CASE Accept
  BY <1>t, <1>e, <1>2 DEF Accept, sysVars
<1>3. CASE Close
  BY <1>t, <1>e, <1>3 DEF Close, sysVars
<1>4. CASE Check
  <2>1. cur \in Name /\ req.op \in Ops["ref"] /\ req.op \in Ops[topic]
    BY <1>4 DEF Check, Control
  <2>2. topic # "events" /\ pc = "check" /\ out = <<>> /\ cap' = cap
    BY <1>4, <2>1 DEF Check
  <2>3. CASE pc' \in {"sent", "act"} /\ out' = out
    BY <1>t, <2>2, <2>3
  <2>4. CASE pc' = "sent" /\ out' = <<[name |-> cur, runs |-> is_container_running(cur)]>>
    <3>1. [name |-> cur, runs |-> is_container_running(cur)] \in Report
      BY <2>1 DEF Report, is_container_running, Alive, System
    <3>2. out' \in Seq(Report) /\ Len(out') = 1
      BY <2>4, <3>1
    <3>3. Len(out') <= cap' /\ FirstCap <= cap'
      BY <1>t, <1>l, <2>2, <3>2
    <3> QED BY <1>t, <2>2, <2>4, <3>2, <3>3
  <2> QED BY <1>4, <2>3, <2>4 DEF Check
<1>5. CASE HintEnds
  <2>1. /\ pc = "hint" /\ out' = out /\ cnt \in Nat /\ req.op \in {"info"} \union Lists
        /\ req.op \in Ops[topic]
    BY <1>5 DEF HintEnds, Control
  <2>2. topic = "list" /\ Room = MaxRec
    BY <2>1 DEF Room, System
  <2>3. cap' \in 0..Room /\ FirstCap <= cap' /\ pc' \in {"sent", "pids"}
    <3>t. MaxRec \in Nat /\ FirstCap <= cap /\ cap \in 0..Room
      BY <2>1, BridgeAssumption
    <3>1. \/ pc' = "sent" /\ cap' = cap
          \/ /\ cnt <= MaxRec /\ pc' = "pids"
             /\ cap' = IF cnt > FirstCap THEN cnt ELSE FirstCap
      BY <1>5, <2>1, HintVerdict
    <3> QED BY <1>t, <2>1, <2>2, <3>t, <3>1
  <2> QED BY <1>t, <1>e, <2>1, <2>3
<1>6. ASSUME NEW n \in Name, PidsNext(n) \/ ConfsNext(n) PROVE Arrays'
  <2>1. topic # "events" /\ pc \in {"pids", "confs"} /\ FirstCap <= cap
    BY <1>6 DEF PidsNext, ConfsNext, Control
  <2>2. CASE UNCHANGED <<out, cap, pc, topic>>
    BY <1>1, <2>2
  <2>3. ASSUME NEW r \in Report, NEW p \in {"pids", "confs"}, Emit(r, p) PROVE Arrays'
    <3>1. /\ out' \in Seq(Report) /\ Len(out') <= cap' /\ cap' \in 0..Room /\ cap <= cap'
          /\ pc' \in {"sent", "pids", "confs"}
      BY <2>1, <2>3, Emitted
    <3>2. FirstCap <= cap'
      BY <1>t, <1>l, <2>1, <3>1
    <3> QED BY <1>t, <2>1, <3>1, <3>2
  <2>4. [name |-> n, runs |-> TRUE] \in Report /\ [name |-> n, runs |-> run[n]] \in Report
    BY DEF Report, System
  <2> QED
    BY <1>6, <1>t, <2>2, <2>3, <2>4 DEF PidsNext, ConfsNext, is_container_running, Alive
<1>7. CASE PollNext
  <2>1. /\ topic = "events" /\ pc = "poll" /\ FirstCap <= cap
        /\ pos < Len(file)
    BY <1>7 DEF PollNext, Control, System
  <2>2. CASE UNCHANGED <<out, cap, pc, topic>>
    BY <1>1, <2>2
  <2>3. CASE Emit(file[pos + 1], "poll")
    <3>1. file[pos + 1] \in Event
      <4>1. file \in Seq(Event) /\ pos + 1 \in 1..Len(file)
        BY <2>1, LenProperties DEF LogInv, LogTypeOK
      <4> QED BY <4>1, ElementOfSeq
    <3>2. /\ out' \in Seq(Event) /\ Len(out') <= cap' /\ cap' \in 0..Room /\ cap <= cap'
          /\ pc' \in {"sent", "poll"}
      BY <2>1, <2>3, <3>1, Emitted
    <3>3. FirstCap <= cap'
      BY <1>t, <1>l, <2>1, <3>2
    <3> QED BY <1>t, <2>1, <3>2, <3>3
  <2> QED BY <1>7, <1>t, <2>2, <2>3 DEF PollNext
<1>8. CASE \/ Header \/ Payload \/ Prune \/ PidsEnds \/ ConfsEnds \/ Exact \/ ScanEnds
           \/ Record \/ Recorded \/ PollEnds \/ Act \/ Recheck
           \/ \E n \in Name : HintNext(n) \/ ScanNext(n)
  <2>1. UNCHANGED <<out, cap>> /\ pc # "accept"
    BY <1>8 DEF Header, Payload, Prune, PidsEnds, ConfsEnds, Exact, ScanEnds, Record,
       Recorded, PollEnds, Act, Recheck, HintNext, ScanNext
  <2>2. pc' \in Begin \union {"hint", "prune"} \union Resolving =>
        pc \in Begin \union {"hint", "prune"} \union Resolving
    BY <1>8 DEF Header, Payload, Prune, PidsEnds, ConfsEnds, Exact, ScanEnds, Record,
       Recorded, PollEnds, Act, Recheck, HintNext, ScanNext
  <2> QED BY <1>t, <2>1, <2>2
<1>9. CASE \/ Writing \/ OthersRecord \/ UNCHANGED vars \/ \E n \in Name : EnvMoves(n)
  BY <1>1, <1>9, OthersStep
<1> QED
  BY <1>2, <1>3, <1>4, <1>5, <1>6, <1>7, <1>8, <1>9 DEF Next, BridgeSteps

-----------------------------------------------------------------------------
(***************************************************************************)
(* Pidfiles and counts.                                                    *)
(***************************************************************************)

(* What a pidfile says of a container, above all of one that is steady. *)
Pidfiles ==
  /\ \A n \in Name : pidf[n] = "live" => run[n]
  /\ \A n \in Name : pidf[n] = "dead" => ~run[n]
  /\ \A n \in steady : run[n] => pidf[n] = "live"
  /\ pc = "prune" /\ cur \in steady => ~run[cur]

(* No more containers are counted than directory entries were met. *)
Counting ==
  /\ cnt \in 0..Cardinality(Name)
  /\ pc \in Begin => cnt = 0
  /\ pc \in {"hint", "prune"} => cnt <= Cardinality(seen)

(* Nothing that others do is seen in a steady container. *)
LEMMA OthersLeave ==
  ASSUME System, Control, \/ Writing \/ OthersRecord \/ UNCHANGED vars
                          \/ \E n \in Name : EnvMoves(n)
  PROVE  /\ \A m \in steady' : /\ m \in steady /\ run'[m] = run[m] /\ pidf'[m] = pidf[m]
                               /\ m \in left => m \in left'
         /\ pc \notin {"hint", "prune", "pids"} => left' = left
<1>1. CASE Writing \/ OthersRecord \/ UNCHANGED vars
  BY <1>1 DEF Writing, OthersRecord, sysVars, srvVars, vars
<1>2. ASSUME NEW n \in Name, EnvMoves(n)
      PROVE  /\ \A m \in steady' : /\ m \in steady /\ run'[m] = run[m] /\ pidf'[m] = pidf[m]
                                   /\ m \in left => m \in left'
             /\ pc \notin {"hint", "prune", "pids"} => left' = left
  <2>1. PICK r \in BOOLEAN, p \in {"none", "live", "dead"} : Becomes(n, r, p)
    BY <1>2 DEF EnvMoves
  <2>2. steady' = steady \ {n} /\ steady \subseteq Name
    BY <1>2 DEF EnvMoves, Control
  <2> QED BY <2>1, <2>2 DEF Becomes, System
<1> QED BY <1>1, <1>2

LEMMA PidfilesKept ==
  ASSUME System, Control, Pidfiles, [Next]_vars
  PROVE  Pidfiles'
<1> USE DEF Pidfiles, System, sysVars, Goto, Reply, Emit, Heals, is_container_running, Alive
<1>1. CASE Writing \/ OthersRecord \/ UNCHANGED vars
  BY <1>1 DEF Writing, OthersRecord, srvVars, vars
<1>2. ASSUME NEW n \in Name, EnvMoves(n) PROVE Pidfiles'
  BY <1>2 DEF EnvMoves, Becomes, Control
<1>3. CASE Accept
  BY <1>3 DEF Accept
<1>4. CASE \/ Header \/ Payload \/ HintEnds \/ PidsEnds \/ ConfsEnds \/ Exact
           \/ ScanEnds \/ Record \/ Recorded \/ PollNext \/ PollEnds \/ Close
  <2>1. UNCHANGED <<run, pidf>> /\ steady' \subseteq steady
    BY <1>4 DEF Header, Payload, HintEnds, PidsEnds, ConfsEnds, Exact, ScanEnds, Record,
       Recorded, PollNext, PollEnds, Close
  <2>2. pc' # "prune"
    <3>1. CASE Payload \/ HintEnds
      BY <3>1, PayloadVerdict, HintVerdict DEF Control
    <3>2. CASE ~(Payload \/ HintEnds)
      BY <1>4, <3>2 DEF Header, PidsEnds, ConfsEnds, Exact, ScanEnds, Record, Recorded,
         PollNext, PollEnds, Close
    <3> QED BY <3>1, <3>2
  <2> QED BY <2>1, <2>2
<1>5. CASE Prune
  BY <1>5 DEF Prune, Control, Goto
<1>6. CASE Check \/ Recheck
  BY <1>6 DEF Check, Recheck, Control
<1>7. CASE Act
  BY <1>7 DEF Act, Becomes, Control
<1>8. ASSUME NEW n \in Name, HintNext(n) \/ PidsNext(n) \/ ConfsNext(n) \/ ScanNext(n)
      PROVE  Pidfiles'
  BY <1>8 DEF HintNext, PidsNext, ConfsNext, ScanNext, Control
<1> QED
  BY <1>1, <1>2, <1>3, <1>4, <1>5, <1>6, <1>7, <1>8 DEF Next, BridgeSteps

LEMMA CountingKept ==
  ASSUME System, Control, Counting, [Next]_vars
  PROVE  Counting'
<1>t. /\ Cardinality(Name) \in Nat /\ cnt \in Nat
      /\ \A S \in SUBSET Name : /\ IsFiniteSet(S) /\ Cardinality(S) \in Nat
                               /\ Cardinality(S) <= Cardinality(Name)
  BY BridgeAssumption, FS_Subset, FS_CardinalityType DEF Counting
<1>1. CASE UNCHANGED <<pc, cnt, seen>>
  BY <1>1 DEF Counting, Begin
<1>2. CASE \/ Writing \/ OthersRecord \/ UNCHANGED vars \/ \E n \in Name : EnvMoves(n)
  BY <1>1, <1>2, OthersStep
<1>3. CASE Accept \/ Header
  BY <1>3 DEF Accept, Header, Counting, Begin, Goto, Reply
<1>4. CASE Payload
  <2>1. cnt' = 0
    BY <1>4, PayloadVerdict DEF Payload, Counting, Begin
  <2>2. Cardinality(seen') \in Nat
    BY <1>t, <1>4 DEF Payload, Control
  <2> QED BY <1>t, <1>4, <2>1, <2>2, PayloadVerdict DEF Counting, Begin
<1>5. ASSUME NEW n \in Name, HintNext(n) PROVE Counting'
  <2>1. /\ pc = "hint" /\ pc' \in {"hint", "prune"} /\ n \notin seen /\ seen' = seen \cup {n}
        /\ cnt' \in {cnt, cnt + 1}
    BY <1>5 DEF HintNext, Goto
  <2>2. /\ seen \subseteq Name /\ seen' \subseteq Name
        /\ Cardinality(seen') = Cardinality(seen) + 1
    BY <1>t, <2>1, FS_AddElement DEF Control
  <2>3. cnt <= Cardinality(seen)
    BY <2>1 DEF Counting
  <2> QED BY <1>t, <2>1, <2>2, <2>3 DEF Counting, Begin
<1>6. CASE Prune
  BY <1>6 DEF Prune, Counting, Begin, Goto
<1>7. CASE Check
  <2>1. 1 <= Cardinality(Name)
    <3>1. {cur} \in SUBSET Name /\ Cardinality({cur}) = 1
      BY <1>7, FS_Singleton DEF Control, Check
    <3> QED BY <1>t, <3>1
  <2>2. cnt' \in {0, 1} /\ pc' \in {"sent", "act"}
    BY <1>7 DEF Check, Goto, Reply
  <2> QED BY <1>t, <2>1, <2>2 DEF Counting, Begin
<1>8. CASE Close
  BY <1>t, <1>8 DEF Close, Counting, Begin, Goto
<1>9. CASE \/ HintEnds \/ PidsEnds \/ ConfsEnds \/ Exact \/ ScanEnds \/ Act \/ Recheck
           \/ Record \/ Recorded \/ PollNext \/ PollEnds
           \/ \E n \in Name : PidsNext(n) \/ ConfsNext(n) \/ ScanNext(n)
  <2>1. cnt' = cnt
    BY <1>9 DEF HintEnds, PidsEnds, ConfsEnds, Exact, ScanEnds, Act, Recheck, Record, Recorded,
       PollNext, PollEnds, PidsNext, ConfsNext, ScanNext
  <2>2. pc' \notin Begin \union {"hint", "prune"}
    <3>1. CASE HintEnds
      BY <1>t, <3>1, HintVerdict DEF Begin
    <3>2. CASE \E n \in Name : PidsNext(n) \/ ConfsNext(n) \/ ScanNext(n)
      BY <3>2 DEF PidsNext, ConfsNext, ScanNext, Goto, Reply, Emit, Begin
    <3>3. CASE \/ PidsEnds \/ ConfsEnds \/ Exact \/ ScanEnds \/ Act \/ Recheck
               \/ Record \/ Recorded \/ PollNext \/ PollEnds
      BY <3>3 DEF PidsEnds, ConfsEnds, Exact, ScanEnds, Act, Recheck, Record, Recorded,
         PollNext, PollEnds, Goto, Reply, Emit, Begin
    <3> QED BY <1>9, <3>1, <3>2, <3>3
  <2> QED BY <2>1, <2>2 DEF Counting
<1> QED
  BY <1>2, <1>3, <1>4, <1>5, <1>6, <1>7, <1>8, <1>9 DEF Next, BridgeSteps

-----------------------------------------------------------------------------
(***************************************************************************)
(* Lists.                                                                  *)
(***************************************************************************)

(* What has been counted when nothing changes, and what a scan of pidfiles *)
(* has yet to meet.                                                        *)
Counted ==
  pc \in {"hint", "prune"} =>
    /\ steady = Name => cnt = Cardinality({n \in seen : run[n]})
    /\ \A n \in steady : run[n] => n \in seen \union left

(* The first pass has listed the running containers it met; the second     *)
(* starts with the running ones listed and adds those it meets.            *)
Passed ==
  /\ pc = "pids" => \A n \in steady :
       /\ run[n] => n \in seen \union left
       /\ IF n \in conf /\ run[n] /\ n \in seen THEN Once(n) ELSE Records(n) = {}
  /\ pc = "confs" =>
       /\ conf \subseteq seen \union left /\ left \subseteq conf /\ seen \intersect left = {}
       /\ \A n \in steady :
            IF n \in conf /\ (n \in seen \/ (req.op = "listall" /\ run[n]))
              THEN Once(n) ELSE Records(n) = {}

LEMMA CountedKept ==
  ASSUME System, Control, Counting, Pidfiles, Counted, [Next]_vars
  PROVE  Counted'
<1> USE DEF System
<1>1. CASE Writing \/ OthersRecord \/ UNCHANGED vars
  <2>1. UNCHANGED <<pc, steady, cnt, seen, run, left>>
    BY <1>1 DEF Writing, OthersRecord, sysVars, srvVars, vars
  <2> QED BY <2>1 DEF Counted
<1>2. ASSUME NEW n \in Name, EnvMoves(n) PROVE Counted'
  <2>1. /\ UNCHANGED <<pc, cnt, seen>> /\ n \notin steady'
        /\ \A m \in steady' : /\ m \in steady /\ run'[m] = run[m]
                              /\ m \in left => m \in left'
    BY <1>2, OthersStep, OthersLeave DEF EnvMoves
  <2> QED BY <2>1 DEF Counted
<1>3. CASE Payload
  <2>1. cnt' = 0 /\ seen' = {} /\ UNCHANGED <<run, steady>> /\ steady \subseteq Name
    BY <1>3, PayloadVerdict DEF Payload, Counting, Control, Begin, sysVars
  <2>2. pc' # "confs" => left' = {n \in Name : pidf[n] # "none"}
    BY <1>3 DEF Payload
  <2>3. {n \in seen' : run'[n]} = {}
    BY <2>1
  <2>4. pc' \in {"hint", "prune"} => \A n \in steady : run[n] => n \in left'
    BY <2>1, <2>2 DEF Pidfiles
  <2> QED BY <2>1, <2>3, <2>4, FS_EmptySet DEF Counted
<1>4. ASSUME NEW n \in Name, HintNext(n) PROVE Counted'
  <2>1. /\ pc = "hint" /\ n \notin seen /\ seen' = seen \cup {n} /\ left' = left \ {n}
        /\ UNCHANGED <<run, steady>>
        /\ \/ cnt' = cnt /\ ~run[n]
           \/ cnt' = cnt + 1 /\ run[n]
    BY <1>4 DEF HintNext, Pidfiles, Control, sysVars
  <2>2. \A m \in steady : run[m] => m \in seen' \union left'
    BY <2>1 DEF Counted
  <2>3. ASSUME steady = Name PROVE cnt' = Cardinality({m \in seen' : run'[m]})
    <3> DEFINE R == {m \in seen : run[m]}
    <3>1. cnt = Cardinality(R)
      BY <2>1, <2>3 DEF Counted
    <3>2. IsFiniteSet(R)
      BY BridgeAssumption, FS_Subset DEF Control
    <3>3. CASE run[n]
      <4>1. {m \in seen' : run'[m]} = R \cup {n} /\ n \notin R
        BY <2>1, <3>3
      <4> QED BY <2>1, <3>1, <3>2, <3>3, <4>1, FS_AddElement
    <3>4. CASE ~run[n]
      <4>1. {m \in seen' : run'[m]} = R
        BY <2>1, <3>4
      <4> QED BY <2>1, <3>1, <3>4, <4>1
    <3> QED BY <3>3, <3>4
  <2> QED BY <2>1, <2>2, <2>3 DEF Counted
<1>5. CASE Prune
  <2>1. UNCHANGED <<cnt, run, steady, seen, left>> /\ pc = "prune"
    BY <1>5 DEF Prune
  <2> QED BY <2>1 DEF Counted
<1>6. CASE \/ Accept \/ Header \/ HintEnds \/ PidsEnds \/ ConfsEnds \/ Exact \/ ScanEnds \/ Check
           \/ Act \/ Recheck \/ Record \/ Recorded \/ PollNext \/ PollEnds \/ Close
           \/ \E n \in Name : PidsNext(n) \/ ConfsNext(n) \/ ScanNext(n)
  <2>1. pc' \notin {"hint", "prune"}
    <3>1. CASE HintEnds
      BY <3>1, HintVerdict DEF Control
    <3>2. CASE \E n \in Name : PidsNext(n) \/ ConfsNext(n) \/ ScanNext(n)
      BY <3>2 DEF PidsNext, ConfsNext, ScanNext, Goto, Reply, Emit
    <3>3. CASE \/ Accept \/ Header \/ PidsEnds \/ ConfsEnds \/ Exact \/ ScanEnds \/ Check
               \/ Act \/ Recheck \/ Record \/ Recorded \/ PollNext \/ PollEnds \/ Close
      BY <3>3 DEF Accept, Header, PidsEnds, ConfsEnds, Exact, ScanEnds, Check, Act, Recheck,
         Record, Recorded, PollNext, PollEnds, Close, Goto, Reply, Emit
    <3> QED BY <1>6, <3>1, <3>2, <3>3
  <2> QED BY <2>1 DEF Counted
<1> QED
  BY <1>1, <1>2, <1>3, <1>4, <1>5, <1>6 DEF Next, BridgeSteps

(* A list in which a record is found stays as it is for everybody else.    *)
LEMMA RecordsAre ==
  ASSUME NEW S, out \in Seq(S), UNCHANGED out
  PROVE  \A n \in Name : /\ Records(n)' = Records(n)
                         /\ run'[n] = run[n] /\ Once(n) => Once(n)'
BY DEF Records, Once

LEMMA RecordAdded ==
  ASSUME System, NEW S, out \in Seq(S), NEW r \in Report, NEW next,
         Len(out) <= cap, cap \in 0..Room, FirstCap <= cap, Emit(r, next), pc' # "sent"
  PROVE  /\ pc' = next
         /\ \A n \in Name : Records(n)' = IF r.name = n THEN Records(n) \cup {Len(out) + 1}
                                                        ELSE Records(n)
         /\ \A n \in Name : r.name # n /\ Once(n) /\ run'[n] = run[n] => Once(n)'
         /\ Records(r.name) = {} /\ r.runs = run'[r.name] => Once(r.name)'
<1>1. /\ pc' = next /\ Len(out) \in Nat /\ out' = Append(out, r) /\ Len(out') = Len(out) + 1
      /\ \A i \in 1..Len(out) : out'[i] = out[i]
      /\ out'[Len(out) + 1] = r
  BY LenProperties, AppendProperties DEF Emit, Goto, Reply
<1>2. DOMAIN out = 1..Len(out) /\ DOMAIN out' = 1..Len(out) + 1
  BY <1>1, LenProperties, AppendProperties
<1>3. \A n : Records(n)' = IF r.name = n THEN Records(n) \cup {Len(out) + 1} ELSE Records(n)
  BY <1>1, <1>2 DEF Records
<1>4. ASSUME NEW n \in Name, r.name # n, Once(n), run'[n] = run[n] PROVE Once(n)'
  BY <1>1, <1>2, <1>3, <1>4 DEF Once
<1>5. ASSUME Records(r.name) = {}, r.runs = run'[r.name] PROVE Once(r.name)'
  BY <1>1, <1>2, <1>3, <1>5 DEF Once
<1> QED BY <1>1, <1>3, <1>4, <1>5

LEMMA PassedKept ==
  ASSUME System, Control, Counting, Arrays, Pidfiles, Passed, [Next]_vars
  PROVE  Passed'
<1> USE DEF System
<1>a. pc \in {"pids", "confs"} => /\ out \in Seq(Report) /\ FirstCap <= cap
                                  /\ Len(out) <= cap /\ cap \in 0..Room
  BY OpsAre DEF Arrays, Control, Lists
<1>s. steady \subseteq Name
  BY DEF Control
<1>1. CASE \/ Writing \/ OthersRecord \/ UNCHANGED vars \/ \E n \in Name : EnvMoves(n)
  <2>1. /\ UNCHANGED <<pc, conf, req, seen, out>>
        /\ \A m \in steady' : /\ m \in steady /\ run'[m] = run[m]
                              /\ m \in left => m \in left'
        /\ pc = "confs" => left' = left
    BY <1>1, OthersStep, OthersLeave
  <2>2. CASE pc \in {"pids", "confs"}
    <3>1. \A m \in steady' : Records(m)' = Records(m) /\ (Once(m) => Once(m)')
      BY <1>a, <1>s, <2>1, <2>2, RecordsAre
    <3> QED BY <2>1, <2>2, <3>1 DEF Passed
  <2> QED BY <2>1, <2>2 DEF Passed
<1>2. CASE HintEnds
  <2>1. CASE pc' = "pids"
    <3>1. out = <<>>
      BY <1>2 DEF HintEnds, Arrays, Begin, Resolving
    <3>2. \A n \in Name : Records(n)' = {}
      BY <1>2, <3>1 DEF HintEnds, Records
    <3>3. /\ left' = {n \in Name : pidf[n] # "none"} /\ seen' = {}
          /\ UNCHANGED <<run, steady>>
      BY <1>2 DEF HintEnds, sysVars
    <3> QED BY <1>s, <2>1, <3>2, <3>3 DEF Passed, Pidfiles
  <2> QED BY <1>2, <2>1, HintVerdict DEF Passed, Control
<1>3. CASE Payload
  <2>1. CASE pc' = "confs"
    <3>1. out = <<>> /\ seen = {} /\ req.op = "images" /\ left' = conf
          /\ UNCHANGED <<conf, run, steady, seen, out, req>>
      BY <1>3, <2>1, PayloadVerdict DEF Payload, Arrays, Begin, Control, sysVars
    <3>2. \A n \in Name : Records(n)' = {}
      BY <3>1 DEF Records
    <3> QED BY <1>s, <2>1, <3>1, <3>2 DEF Passed
  <2> QED BY <1>3, <2>1, PayloadVerdict DEF Passed
<1>4. ASSUME NEW n \in Name, PidsNext(n), pc' # "sent" PROVE Passed'
  <2>1. /\ pc = "pids" /\ n \notin seen /\ seen' = seen \cup {n} /\ left' = left \ {n}
        /\ UNCHANGED <<conf, run, steady, req>>
    BY <1>4 DEF PidsNext
  <2>2. n \in steady => Records(n) = {}
    BY <2>1 DEF Passed
  <2>3. CASE n \in conf /\ run[n]
    <3> DEFINE r == [name |-> n, runs |-> TRUE]
    <3>1. Emit(r, "pids") /\ r \in Report /\ r.name = n /\ r.runs = run[n]
      BY <1>4, <2>3 DEF PidsNext, is_container_running, Alive, Report
    <3> HIDE DEF r
    <3>2. /\ pc' = "pids"
          /\ \A m \in Name : Records(m)' = IF r.name = m THEN Records(m) \cup {Len(out) + 1}
                                                         ELSE Records(m)
          /\ \A m \in Name : r.name # m /\ Once(m) /\ run'[m] = run[m] => Once(m)'
          /\ Records(r.name) = {} /\ r.runs = run'[r.name] => Once(r.name)'
      BY <1>a, <1>4, <2>1, <3>1, RecordAdded
    <3>3. n \in steady => Once(n)'
      BY <2>1, <2>2, <2>3, <3>1, <3>2
    <3> QED BY <1>s, <2>1, <2>3, <3>1, <3>2, <3>3 DEF Passed
  <2>4. CASE ~(n \in conf /\ run[n])
    <3>1. UNCHANGED <<pc, out>>
      BY <1>4, <2>4 DEF PidsNext, is_container_running, Alive
    <3>2. \A m \in Name : Records(m)' = Records(m) /\ (Once(m) => Once(m)')
      BY <1>a, <2>1, <3>1, RecordsAre
    <3> QED BY <1>s, <2>1, <2>2, <2>4, <3>1, <3>2 DEF Passed
  <2> QED BY <2>3, <2>4
<1>5. CASE PidsEnds
  <2>1. /\ pc = "pids" /\ left = {} /\ seen' = {} /\ left' = conf
        /\ UNCHANGED <<conf, run, steady, req, out>>
        /\ pc' = IF req.op = "listall" THEN "confs" ELSE "sent"
    BY <1>5 DEF PidsEnds, sysVars, Goto, Reply
  <2>2. \A m \in Name : Records(m)' = Records(m) /\ (Once(m) => Once(m)')
    BY <1>a, <2>1, RecordsAre
  <2> QED BY <1>s, <2>1, <2>2 DEF Passed
<1>6. ASSUME NEW n \in Name, ConfsNext(n), pc' # "sent" PROVE Passed'
  <2>1. /\ pc = "confs" /\ n \in left /\ seen' = seen \cup {n} /\ left' = left \ {n}
        /\ UNCHANGED <<conf, run, steady, req>>
    BY <1>6 DEF ConfsNext
  <2>2. n \in conf /\ n \notin seen
    BY <2>1 DEF Passed
  <2>3. /\ conf \subseteq seen' \union left' /\ left' \subseteq conf
        /\ seen' \intersect left' = {}
    BY <2>1 DEF Passed
  <2>4. CASE req.op = "listall" /\ run[n]
    <3>1. UNCHANGED <<pc, out>>
      BY <1>6, <2>4 DEF ConfsNext, is_container_running, Alive
    <3>2. \A m \in Name : Records(m)' = Records(m) /\ (Once(m) => Once(m)')
      BY <1>a, <2>1, <3>1, RecordsAre
    <3> QED BY <1>s, <2>1, <2>2, <2>3, <2>4, <3>1, <3>2 DEF Passed
  <2>5. CASE ~(req.op = "listall" /\ run[n])
    <3>0. PICK b \in BOOLEAN : b = run[n]
      OBVIOUS
    <3> DEFINE r == [name |-> n, runs |-> b]
    <3>1. Emit(r, "confs") /\ r \in Report /\ r.name = n /\ r.runs = run[n]
      BY <1>6, <2>5, <3>0 DEF ConfsNext, is_container_running, Alive, Report
    <3> HIDE DEF r
    <3>2. /\ pc' = "confs"
          /\ \A m \in Name : Records(m)' = IF r.name = m THEN Records(m) \cup {Len(out) + 1}
                                                         ELSE Records(m)
          /\ \A m \in Name : r.name # m /\ Once(m) /\ run'[m] = run[m] => Once(m)'
          /\ Records(r.name) = {} /\ r.runs = run'[r.name] => Once(r.name)'
      BY <1>a, <1>6, <2>1, <3>1, RecordAdded
    <3>3. n \in steady => Once(n)'
      <4>1. n \in steady => Records(n) = {}
        BY <2>1, <2>2, <2>5 DEF Passed
      <4> QED BY <2>1, <3>1, <3>2, <4>1
    <3> QED BY <1>s, <2>1, <2>2, <2>3, <3>1, <3>2, <3>3 DEF Passed
  <2> QED BY <2>4, <2>5
<1>7. CASE pc' = "sent"
  BY <1>7 DEF Passed
<1>8. CASE \/ Accept \/ Header \/ Prune \/ ConfsEnds \/ Exact \/ ScanEnds \/ Check
           \/ Act \/ Recheck \/ Record \/ Recorded \/ PollNext \/ PollEnds \/ Close
           \/ \E n \in Name : HintNext(n) \/ ScanNext(n)
  <2>1. pc' \notin {"pids", "confs"}
    BY <1>8 DEF Accept, Header, Prune, ConfsEnds, Exact, ScanEnds, Check, Act, Recheck,
       Record, Recorded, PollNext, PollEnds, Close, HintNext, ScanNext, Goto, Reply, Emit
  <2> QED BY <2>1 DEF Passed
<1> QED
  BY <1>1, <1>2, <1>3, <1>4, <1>5, <1>6, <1>7, <1>8 DEF Next, BridgeSteps

(* A list that is sent is the one that was made. *)
LEMMA ListsRight ==
  ASSUME System, Control, Counting, Arrays, Pidfiles, Counted, Passed,
         ListFaithful, [Next]_vars
  PROVE  ListFaithful'
<1> USE DEF System
<1>s. steady \subseteq Name
  BY DEF Control
<1>1. CASE \/ Writing \/ OthersRecord \/ UNCHANGED vars \/ \E n \in Name : EnvMoves(n)
  <2>1. /\ UNCHANGED <<pc, conf, req, resp, out, cnt, topic>>
        /\ \A m \in steady' : m \in steady /\ run'[m] = run[m]
    BY <1>1, OthersStep, OthersLeave
  <2>2. CASE pc = "sent" /\ req.op \in {"list", "listall", "images"}
    <3>1. out \in Seq(Report)
      BY <2>2, OpsAre DEF Arrays, Control
    <3>2. \A m \in steady' : Records(m)' = Records(m) /\ (Once(m) => Once(m)')
      BY <1>s, <2>1, <3>1, RecordsAre
    <3> QED BY <2>1, <2>2, <3>2 DEF ListFaithful, Answered
  <2>3. CASE pc = "sent" /\ req.op = "info"
    <3>1. ASSUME steady' = Name PROVE {n \in Name : run'[n]} = {n \in Name : run[n]}
      BY <2>1, <3>1
    <3>2. steady' = Name => steady = Name
      BY <1>s, <2>1
    <3> QED BY <2>1, <2>3, <3>1, <3>2 DEF ListFaithful, Answered
  <2> QED BY <2>1, <2>2, <2>3 DEF ListFaithful, Answered
<1>2. CASE HintEnds
  <2>1. CASE req.op = "info"
    <3>1. /\ pc = "hint" /\ left = {} /\ UNCHANGED <<cnt, steady, run, req>>
      BY <1>2 DEF HintEnds, sysVars
    <3>2. ASSUME steady = Name PROVE cnt = Cardinality({n \in Name : run[n]})
      <4>1. {n \in seen : run[n]} = {n \in Name : run[n]}
        BY <3>1, <3>2 DEF Counted, Control
      <4> QED BY <3>1, <3>2, <4>1 DEF Counted
    <3> QED BY <2>1, <3>1, <3>2 DEF ListFaithful, Answered
  <2>2. CASE req.op # "info"
    <3>1. ~(pc' = "sent" /\ resp' = "OK") /\ req' = req
      BY <1>2, <2>2, HintVerdict DEF HintEnds, Control
    <3> QED BY <3>1 DEF ListFaithful, Answered
  <2> QED BY <2>1, <2>2
<1>3. CASE PidsEnds
  <2>1. /\ pc = "pids" /\ left = {} /\ UNCHANGED <<conf, run, steady, req, out>>
        /\ pc' = "sent" => req.op = "list"
    BY <1>3 DEF PidsEnds, sysVars, Goto, Reply, Control, Lists
  <2>2. \A m \in Name : Records(m)' = Records(m) /\ (Once(m) => Once(m)')
    BY <2>1, OpsAre, RecordsAre DEF Arrays, Control, Lists
  <2> QED BY <1>s, <2>1, <2>2 DEF Passed, ListFaithful, Answered
<1>4. CASE ConfsEnds
  <2>1. /\ pc = "confs" /\ left = {} /\ UNCHANGED <<conf, run, steady, req, out>>
        /\ req.op \in {"listall", "images"}
    BY <1>4 DEF ConfsEnds, sysVars, Control
  <2>2. \A m \in Name : Records(m)' = Records(m) /\ (Once(m) => Once(m)')
    BY <2>1, OpsAre, RecordsAre DEF Arrays, Control
  <2> QED BY <1>s, <2>1, <2>2 DEF Passed, ListFaithful, Answered
<1>5. CASE Payload
  BY <1>5, PayloadVerdict DEF Payload, ListFaithful, Answered
<1>6. CASE \/ Accept \/ Header \/ Prune \/ Close
           \/ \E n \in Name : HintNext(n) \/ PidsNext(n) \/ ConfsNext(n)
  <2>1. ~(pc' = "sent" /\ resp' = "OK")
    BY <1>6 DEF Accept, Header, Prune, Close, HintNext, PidsNext, ConfsNext, Goto, Reply, Emit,
       Control, Begin
  <2> QED BY <2>1 DEF ListFaithful, Answered
<1>7. CASE \/ Exact \/ ScanEnds \/ Check \/ Act \/ Recheck \/ Record \/ Recorded \/ PollNext
           \/ PollEnds \/ \E n \in Name : ScanNext(n)
  <2>1. req' = req /\ req.op \notin {"info", "list", "listall", "images"}
    BY <1>7, OpsAre DEF Exact, ScanEnds, Check, Act, Recheck, Record, Recorded, PollNext,
       PollEnds, ScanNext, Control, Resolving
  <2> QED BY <2>1 DEF ListFaithful, Answered
<1> QED
  BY <1>1, <1>2, <1>3, <1>4, <1>5, <1>6, <1>7 DEF Next, BridgeSteps

(* A failure is for want of room. *)
LEMMA FailuresRight ==
  ASSUME System, Control, Arrays, LogInv, pos \in Nat, FailsOnlyWhenFull, [Next]_vars
  PROVE  FailsOnlyWhenFull'
<1> USE OpsAre DEF System
<1>r. Room' = Room
  <2>1. CASE \/ Writing \/ OthersRecord \/ UNCHANGED vars \/ \E n \in Name : EnvMoves(n)
    BY <2>1, OthersStep DEF Room
  <2>2. CASE BridgeSteps
    BY <2>2 DEF BridgeSteps, Room, sysVars, Accept, Header, Payload, Prune, HintEnds,
       PidsEnds, ConfsEnds, Exact, ScanEnds, Record, Recorded, PollNext, PollEnds, Close,
       Check, Recheck, Act, HintNext, PidsNext, ConfsNext, ScanNext
  <2> QED BY <2>1, <2>2 DEF Next
<1>1. CASE \/ Writing \/ OthersRecord \/ UNCHANGED vars \/ \E n \in Name : EnvMoves(n)
  BY <1>r, <1>1, OthersStep DEF FailsOnlyWhenFull, Answered
<1>2. CASE HintEnds
  BY <1>2, HintVerdict DEF HintEnds, Control, FailsOnlyWhenFull, Answered
<1>3. ASSUME NEW n \in Name, PidsNext(n) \/ ConfsNext(n) PROVE FailsOnlyWhenFull'
  <2>1. /\ out \in Seq(Report) /\ Len(out) <= cap /\ cap \in 0..Room /\ FirstCap <= cap
        /\ pc \in {"pids", "confs"}
    BY <1>3 DEF PidsNext, ConfsNext, Arrays, Control, Lists
  <2>2. CASE pc' = pc
    BY <2>1, <2>2 DEF FailsOnlyWhenFull, Answered
  <2>3. ASSUME NEW r \in Report, NEW next \in {"pids", "confs"}, Emit(r, next)
        PROVE  FailsOnlyWhenFull'
    <3>1. pc' = next \/ 2 * Len(out') > Room
      BY <2>1, <2>3, Emitted
    <3> QED BY <1>r, <3>1 DEF FailsOnlyWhenFull, Answered
  <2>4. [name |-> n, runs |-> TRUE] \in Report /\ [name |-> n, runs |-> run[n]] \in Report
    BY DEF Report
  <2> QED
    BY <1>3, <2>2, <2>3, <2>4 DEF PidsNext, ConfsNext, is_container_running, Alive
<1>4. CASE PollNext
  <2>1. /\ topic = "events" /\ pc = "poll" /\ FirstCap <= cap /\ pos < Len(file)
        /\ out \in Seq(Event) /\ Len(out) <= cap /\ cap \in 0..Room
    BY <1>4 DEF PollNext, Control, Arrays
  <2>2. CASE pc' = pc
    BY <2>1, <2>2 DEF FailsOnlyWhenFull, Answered
  <2>3. CASE Emit(file[pos + 1], "poll")
    <3>1. file[pos + 1] \in Event
      <4>1. file \in Seq(Event) /\ pos + 1 \in 1..Len(file)
        BY <2>1, LenProperties DEF LogInv, LogTypeOK
      <4> QED BY <4>1, ElementOfSeq
    <3>2. pc' = "poll" \/ 2 * Len(out') > Room
      BY <2>1, <2>3, <3>1, Emitted
    <3> QED BY <1>r, <3>2 DEF FailsOnlyWhenFull, Answered
  <2> QED BY <1>4, <2>2, <2>3 DEF PollNext
<1>5. CASE Payload
  BY <1>5, PayloadVerdict DEF FailsOnlyWhenFull, Answered
<1>6. CASE \/ Accept \/ Header \/ Prune \/ PidsEnds \/ ConfsEnds \/ PollEnds \/ Close
           \/ \E n \in Name : HintNext(n)
  <2>1. ~(pc' = "sent" /\ resp' = "INTERNAL_ERROR")
    BY <1>6 DEF Accept, Header, Prune, PidsEnds, ConfsEnds, PollEnds, Close, HintNext, Goto,
       Reply, Control, Begin
  <2> QED BY <2>1 DEF FailsOnlyWhenFull, Answered
<1>7. CASE \/ Exact \/ ScanEnds \/ Check \/ Act \/ Recheck \/ Record \/ Recorded
           \/ \E n \in Name : ScanNext(n)
  <2>1. req' = req /\ req.op \in Ops["ref"]
    BY <1>7 DEF Exact, ScanEnds, Check, Act, Recheck, Record, Recorded, ScanNext, Control,
       Resolving
  <2> QED BY <2>1 DEF FailsOnlyWhenFull, Answered
<1> QED
  BY <1>1, <1>2, <1>3, <1>4, <1>5, <1>6, <1>7 DEF Next, BridgeSteps

-----------------------------------------------------------------------------
(***************************************************************************)
(* References.                                                             *)
(***************************************************************************)

LEMMA PrefixIs ==
  ASSUME NEW S, NEW T, NEW s \in Seq(S), NEW t \in Seq(T), IsPrefix(s, t)
  PROVE  /\ Len(s) <= Len(t) /\ Range(s) \subseteq T
         /\ Len(s) = Len(t) => s = t
<1>1. /\ Len(s) \in Nat /\ Len(t) \in Nat /\ Len(s) <= Len(t)
      /\ SubSeq(s, 1, Len(s)) = SubSeq(t, 1, Len(s))
  BY LenProperties DEF IsPrefix
<1>2. SubSeq(s, 1, Len(s)) = s /\ SubSeq(t, 1, Len(t)) = t
  BY SubSeqFull
<1>3. /\ \A i \in 1..Len(s) : s[i] = t[i] /\ t[i] \in T
      /\ Range(s) = {s[i] : i \in 1..Len(s)}
  <2>1. \A i \in 1..Len(t) : t[i] \in T
    BY ElementOfSeq
  <2>2. \A i \in 1..Len(s) : SubSeq(t, 1, Len(s))[i] = t[i]
    <3>1. Len(s) \in Nat /\ \A i \in 1..Len(s) : t[i] \in T
      BY <1>1, <2>1
    <3> QED BY <1>1, <3>1, SubSeqProperties
  <2>3. Range(s) = {s[i] : i \in 1..Len(s)}
    BY RangeEquality
  <2> QED BY <1>1, <1>2, <2>1, <2>2, <2>3
<1> QED BY <1>1, <1>2, <1>3

(* Of the containers a scan has passed only the one it remembers matches. *)
Scanned ==
  /\ req.op \in Ops["ref"] => req.ref \in Seq(Range(req.ref))
  /\ pc = "scan" => /\ req.ref \notin conf /\ left \subseteq conf
                    /\ cur # None => cur \in Matching /\ cur \notin left
                    /\ Matching \subseteq left \union {cur}

LEMMA OverItsRange ==
  ASSUME NEW S, NEW s \in Seq(S)
  PROVE  s \in Seq(Range(s))
<1>1. Len(s) \in Nat /\ s \in [1..Len(s) -> S] /\ Range(s) = {s[i] : i \in 1..Len(s)}
  BY LenProperties, RangeEquality
<1>2. s \in [1..Len(s) -> Range(s)]
  BY <1>1
<1> QED BY <1>1, <1>2, SeqDef

(* A reference is a name or the beginning of a UUID. *)
LEMMA RefsAre ==
  ASSUME NEW r \in Ref
  PROVE  r \in Seq(Range(r))
<1>1. CASE r \in Name
  BY <1>1, BridgeAssumption
<1>2. ASSUME NEW u \in Uuid, NEW i \in 1..Len(u), r = SubSeq(u, 1, i)
      PROVE  r \in Seq(Range(r))
  <2>1. u \in Seq(Hex)
    BY BridgeAssumption DEF Uuid
  <2>2. r \in Seq(Hex)
    BY <1>2, <2>1, LenProperties, RangeSubSeq
  <2> QED BY <2>2, OverItsRange
<1> QED BY <1>1, <1>2 DEF Ref

LEMMA ScannedKept ==
  ASSUME System, Control, Scanned, [Next]_vars
  PROVE  Scanned'
<1> USE OpsAre DEF System
<1>1. CASE \/ Writing \/ OthersRecord \/ UNCHANGED vars \/ \E n \in Name : EnvMoves(n)
  <2>1. /\ UNCHANGED <<pc, conf, uuid, req, cur>>
        /\ pc = "scan" => left' = left
    BY <1>1, OthersStep, OthersLeave
  <2> QED BY <2>1 DEF Scanned, Matching
<1>2. CASE Accept
  <2>1. req'.ref \in Ref \cup {<<>>} /\ pc' = "header"
    BY <1>2 DEF Accept, Requests, Goto
  <2>2. <<>> \in Seq(Name)
    BY EmptySeq
  <2>3. req'.ref \in Seq(Range(req'.ref))
    BY <2>1, <2>2, RefsAre, OverItsRange
  <2>4. Range(req'.ref) = Range(req.ref)'
    BY DEF Range
  <2> QED BY <2>1, <2>3, <2>4 DEF Scanned
<1>3. CASE Close
  BY <1>3 DEF Close, Scanned, NoRequest, Goto
<1>4. CASE Exact
  <2>1. UNCHANGED <<conf, uuid, req>> /\ pc = "exact" /\ cur = None
    BY <1>4 DEF Exact, sysVars, Control
  <2>2. CASE pc' = "scan"
    <3>1. req.ref \notin conf /\ left' = conf /\ cur' = cur
      BY <1>4, <2>2 DEF Exact, Goto, Reply
    <3> QED BY <2>1, <3>1 DEF Scanned, Matching
  <2> QED BY <2>1, <2>2 DEF Scanned
<1>5. ASSUME NEW n \in Name, ScanNext(n) PROVE Scanned'
  <2>1. /\ UNCHANGED <<conf, uuid, req>> /\ pc = "scan" /\ n \in left /\ left' = left \ {n}
        /\ Matching' = Matching
    BY <1>5 DEF ScanNext, sysVars, Matching
  <2>2. /\ req.ref \notin conf /\ left \subseteq conf
        /\ cur # None => cur \in Matching /\ cur \notin left
        /\ Matching \subseteq left \union {cur}
    BY <2>1 DEF Scanned
  <2>3. CASE pc' = "scan" /\ cur' = cur /\ n \notin Matching
    BY <2>1, <2>2, <2>3 DEF Scanned
  <2>4. CASE cur = None /\ cur' = n /\ n \in Matching
    <3>1. None \notin Matching
      BY BridgeAssumption DEF Matching
    <3> QED BY <2>1, <2>2, <2>4, <3>1 DEF Scanned
  <2>5. CASE pc' # "scan"
    BY <2>1, <2>5 DEF Scanned
  <2> QED
    BY <1>5, <2>1, <2>2, <2>3, <2>4, <2>5 DEF ScanNext, Goto, Reply, Matching
<1>6. CASE \/ Header \/ Payload \/ Prune \/ HintEnds \/ PidsEnds \/ ConfsEnds \/ ScanEnds
           \/ Check \/ Act \/ Recheck \/ Record \/ Recorded \/ PollNext \/ PollEnds
           \/ \E n \in Name : HintNext(n) \/ PidsNext(n) \/ ConfsNext(n)
  <2>1. req' = req
    BY <1>6 DEF Header, Payload, Prune, HintEnds, PidsEnds, ConfsEnds, ScanEnds, Check, Act,
       Recheck, Record, Recorded, PollNext, PollEnds, HintNext, PidsNext, ConfsNext
  <2>2. pc' # "scan"
    <3>1. CASE Payload \/ HintEnds
      BY <3>1, PayloadVerdict, HintVerdict DEF Control
    <3>2. CASE ~(Payload \/ HintEnds)
      BY <1>6, <3>2 DEF Header, Prune, PidsEnds, ConfsEnds, ScanEnds, Check, Act, Recheck, Record,
         Recorded, PollNext, PollEnds, HintNext, PidsNext, ConfsNext, Goto, Reply, Emit
    <3> QED BY <3>1, <3>2
  <2> QED BY <2>1, <2>2 DEF Scanned
<1> QED
  BY <1>1, <1>2, <1>3, <1>4, <1>5, <1>6 DEF Next, BridgeSteps

(* A reference is answered as it resolves. *)
LEMMA RefsRight ==
  ASSUME System, Control, Scanned, RefRight, [Next]_vars
  PROVE  RefRight'
<1> USE OpsAre DEF System
<1>1. CASE UNCHANGED <<pc, conf, uuid, req, cur, resp>>
  BY <1>1 DEF RefRight, Distinct, Matching, Answered
<1>2. CASE \/ Writing \/ OthersRecord \/ UNCHANGED vars \/ \E n \in Name : EnvMoves(n)
  BY <1>1, <1>2, OthersStep
<1>u. ASSUME req.op \in Ops["ref"], NEW n \in Matching
      PROVE  /\ uuid[n] \in Seq(Hex) /\ uuid[n] \in Uuid
             /\ req.ref \in Seq(Range(req.ref)) /\ IsPrefix(req.ref, uuid[n])
             /\ Range(req.ref) \subseteq Hex
             /\ Len(req.ref) = Len(uuid[n]) => req.ref = uuid[n]
  <2>1. uuid \in [Name -> Seq(Hex)] /\ uuid \in Uuids /\ n \in Name
    BY BridgeAssumption DEF Matching
  <2>2. uuid[n] \in Seq(Hex) /\ uuid[n] \in Uuid
    BY <2>1 DEF Uuid
  <2>3. req.ref \in Seq(Range(req.ref)) /\ IsPrefix(req.ref, uuid[n])
    BY <1>u DEF Scanned, Matching
  <2> QED BY <2>2, <2>3, PrefixIs
<1>3. CASE Exact
  <2>1. UNCHANGED <<conf, uuid, req>> /\ pc = "exact" /\ req.op \in Ops["ref"]
    BY <1>3 DEF Exact, sysVars, Control, Resolving
  <2>2. CASE pc' = "check"
    BY <1>3, <2>1, <2>2 DEF Exact, RefRight, Goto, Reply, Answered
  <2>3. CASE pc' = "sent" /\ resp' = "NOT_FOUND"
    <3>1. req.ref \notin conf /\ ~(Range(req.ref) \subseteq Hex)
      BY <1>3, <2>1, <2>3 DEF Exact, Goto, Reply
    <3>2. Matching = {}
      BY <1>u, <2>1, <3>1
    <3> QED BY <2>1, <2>3, <3>1, <3>2 DEF RefRight, Answered, Matching
  <2>4. pc' # "check" => pc' = "scan" \/ (pc' = "sent" /\ resp' \in {"INTERNAL_ERROR", "NOT_FOUND"})
    BY <1>3 DEF Exact, Goto, Reply
  <2> QED BY <2>1, <2>2, <2>3, <2>4 DEF RefRight, Answered
<1>4. ASSUME NEW n \in Name, ScanNext(n) PROVE RefRight'
  <2>1. /\ UNCHANGED <<conf, uuid, req>> /\ pc = "scan" /\ n \in left /\ left' = left \ {n}
        /\ Matching' = Matching /\ Distinct' = Distinct /\ req.op \in Ops["ref"]
    BY <1>4 DEF ScanNext, sysVars, Matching, Distinct, Control, Resolving
  <2>2. /\ req.ref \notin conf /\ left \subseteq conf
        /\ cur # None => cur \in Matching /\ cur \notin left
    BY <2>1 DEF Scanned
  <2>3. CASE pc' = "check" /\ cur' = n /\ n \in Matching /\ FullLength(req.ref)
    <3>1. ASSUME Distinct, NEW m \in Matching PROVE m = n
      <4>1. PICK u \in Uuid : Len(u) = Len(req.ref)
        BY <2>3 DEF FullLength
      <4>2. Len(uuid[m]) = Len(req.ref) /\ Len(uuid[n]) = Len(req.ref)
        BY <1>u, <2>1, <2>3, <4>1, BridgeAssumption
      <4>3. uuid[m] = uuid[n]
        BY <1>u, <2>1, <2>3, <4>2
      <4> QED BY <2>3, <3>1, <4>3 DEF Distinct, Matching
    <3> QED BY <2>1, <2>2, <2>3, <3>1 DEF RefRight, Answered
  <2>4. CASE pc' = "sent" /\ resp' = "BAD_REQUEST" /\ n \in Matching /\ cur # None
    <3>1. cur # n /\ {cur, n} \in SUBSET Matching
      BY <2>1, <2>2, <2>4
    <3>2. Cardinality({cur, n}) = 2
      <4>1. IsFiniteSet({cur}) /\ Cardinality({cur}) = 1 /\ {cur} \cup {n} = {cur, n}
        BY FS_Singleton
      <4> QED BY <3>1, <4>1, FS_AddElement
    <3>3. IsFiniteSet(Matching) /\ Cardinality(Matching) \in Nat
      BY BridgeAssumption, FS_Subset, FS_CardinalityType DEF Matching
    <3>4. Cardinality(Matching) > 1
      BY <3>1, <3>2, <3>3, FS_Subset
    <3> QED BY <2>1, <2>2, <2>4, <3>4 DEF RefRight, Answered
  <2>5. CASE pc' = "scan" \/ (pc' = "sent" /\ resp' = "INTERNAL_ERROR")
    BY <2>1, <2>5 DEF RefRight, Answered
  <2> QED
    BY <1>4, <2>1, <2>2, <2>3, <2>4, <2>5 DEF ScanNext, Goto, Reply, Matching
<1>5. CASE ScanEnds
  <2>1. /\ UNCHANGED <<conf, uuid, req, cur>> /\ pc = "scan" /\ left = {}
        /\ Matching' = Matching /\ None \notin Matching
    BY <1>5, BridgeAssumption DEF ScanEnds, sysVars, Matching
  <2>2. /\ req.ref \notin conf /\ Matching \subseteq {cur}
        /\ cur # None => cur \in Matching
    BY <2>1 DEF Scanned
  <2> QED BY <1>5, <2>1, <2>2 DEF ScanEnds, RefRight, Answered, Goto, Reply
<1>6. CASE \/ Check \/ Act \/ Recheck \/ Record \/ Recorded
  <2>1. pc' # "check" /\ (pc' = "sent" => resp' \notin {"NOT_FOUND", "BAD_REQUEST"})
    BY <1>6 DEF Check, Act, Recheck, Record, Recorded, Goto, Reply
  <2> QED BY <2>1 DEF RefRight, Answered
<1>7. CASE \/ Prune \/ HintEnds \/ PidsEnds \/ ConfsEnds \/ PollNext \/ PollEnds \/ Accept
           \/ Close \/ \E n \in Name : HintNext(n) \/ PidsNext(n) \/ ConfsNext(n)
  <2>1. pc' # "check"
    <3>1. CASE HintEnds
      BY <3>1, HintVerdict DEF Control
    <3>2. CASE ~HintEnds
      BY <1>7, <3>2 DEF Prune, PidsEnds, ConfsEnds, PollNext, PollEnds, Accept, Close,
         HintNext, PidsNext, ConfsNext, Goto, Reply, Emit
    <3> QED BY <3>1, <3>2
  <2>2. pc' = "sent" => req' = req /\ req.op \notin Ops["ref"]
    BY <1>7 DEF Prune, HintEnds, PidsEnds, ConfsEnds, PollNext, PollEnds, Accept, Close,
       HintNext, PidsNext, ConfsNext, Goto, Control, Lists
  <2> QED BY <2>1, <2>2 DEF RefRight, Answered
<1>8. CASE Header
  <2>1. /\ req' = req /\ pc' # "check"
        /\ pc' = "sent" => resp' = "FORBIDDEN" \/ req.fault # "none"
    BY <1>8 DEF Header, Goto, Reply
  <2> QED BY <2>1 DEF RefRight, Answered
<1>9. CASE Payload
  BY <1>9, PayloadVerdict DEF Payload, RefRight, Answered
<1> QED
  BY <1>2, <1>3, <1>4, <1>5, <1>6, <1>7, <1>8, <1>9 DEF Next, BridgeSteps

-----------------------------------------------------------------------------
(***************************************************************************)
(* Polls.                                                                  *)
(***************************************************************************)

(* What a poll has collected are events, and up to its position in the     *)
(* file all that it was asked for.                                         *)
Polled ==
  /\ pos \in 0..Len(hist) /\ (pc \in Begin => pos = 0)
  /\ topic = "events" => Range(out) \subseteq Range(hist)
  /\ pc = "poll" /\ order = "turns" /\ ~torn =>
       /\ pos <= Len(file) /\ Range(out) \subseteq Range(file)
       /\ \A i \in 1..pos : file[i] \in Range(out) \/ file[i].time < Since

(* An event of the file that a client does not have is not older than the  *)
(* newest it has.                                                          *)
Has(e) == e.id \in got \/ e.time >= since
Known ==
  /\ got \subseteq 1..MaxEvent /\ since \in 0..MaxTime /\ torn \in BOOLEAN
  /\ since <= now
  /\ order = "turns" => \A w \in Writer : wpc[w] = "append" => since <= wtime[w]
  /\ order = "turns" /\ ~torn => \A e \in Range(Kept) : Has(e)

LEMMA LeastIndex ==
  ASSUME NEW T \in SUBSET Nat, T # {}
  PROVE  \E n \in T : \A m \in T : n <= m
<1> DEFINE Less == {s \in Nat \X Nat : s[1] < s[2]}
<1>1. IsWellFoundedOn(Less, Nat)
  <2>1. OpToRel(<, Nat) = Less
    BY DEF OpToRel
  <2> QED
    BY <2>1, NatLessThanWellFounded, Zenon
<1>2. PICK n \in T : \A m \in T : <<m, n>> \notin Less
  BY <1>1, WFMin, Zenon
<1>3. ASSUME NEW m \in T
      PROVE  n <= m
  <2>1. <<m, n>> \in Less <=> m < n
    OBVIOUS
  <2> QED
    BY <1>2, <2>1
<1> QED
  BY <1>3

LEMMA NewestIs ==
  ASSUME NEW t \in 0..MaxTime, NEW E \in SUBSET Event
  PROVE  /\ Newest(t, E) \in 0..MaxTime /\ Newest(t, E) >= t
         /\ \A e \in E : Newest(t, E) >= e.time
         /\ Newest(t, E) = t \/ \E e \in E : Newest(t, E) = e.time
<1>1. CASE E = {}
  BY <1>1, LimitsAssumption DEF Newest
<1>2. CASE E # {}
  <2> DEFINE T == {e.time : e \in E} \union {t}
             Back == {MaxTime - x : x \in T}
  <2>1. MaxTime \in Nat /\ T \subseteq 0..MaxTime /\ t \in T
    BY LimitsAssumption DEF Event
  <2>2. Back \in SUBSET Nat /\ Back # {}
    BY <2>1
  <2>3. PICK n \in Back : \A m \in Back : n <= m
    BY <2>2, LeastIndex
  <2>4. PICK x \in T : n = MaxTime - x
    BY <2>3
  <2>5. ASSUME NEW y \in T PROVE x >= y
    <3>1. x \in 0..MaxTime /\ y \in 0..MaxTime /\ MaxTime - y \in Back
      BY <2>1
    <3>2. MaxTime - x <= MaxTime - y
      BY <2>3, <2>4, <3>1
    <3> QED BY <2>1, <3>1, <3>2
  <2>6. x >= t /\ \A e \in E : x >= e.time
    BY <2>5
  <2> DEFINE m == CHOOSE m \in T : m >= t /\ \A e \in E : m >= e.time
  <2>7. m \in T /\ m >= t /\ \A e \in E : m >= e.time
    BY <2>4, <2>6
  <2>8. Newest(t, E) = m
    BY <1>2 DEF Newest
  <2> HIDE DEF m
  <2> QED BY <2>1, <2>7, <2>8
<1> QED BY <1>1, <1>2

LEMMA KeptTyped ==
  ASSUME LogTypeOK
  PROVE  Kept \in Seq(Event)
<1>1. CASE order = "turns" /\ \E w \in Writer : wpc[w] = "write"
  <2> DEFINE v == CHOOSE w \in Writer : wpc[w] = "write"
  <2>1. v \in Writer
    BY <1>1
  <2> HIDE DEF v
  <2>2. Kept = keep[v]
    BY <1>1 DEF Kept, v
  <2> QED BY <2>1, <2>2 DEF LogTypeOK
<1> QED BY <1>1 DEF Kept, LogTypeOK

(* Only an event that happens is new to the readers. *)
LEMMA KeptGrows ==
  ASSUME LogInv, [LogNext]_logVars, order = "turns"
  PROVE  \A e \in Range(Kept') :
           e \in Range(Kept) \/ \E w \in Writer : wpc[w] = "append" /\ e.time = wtime[w]
<1>t. LogTypeOK /\ Kept \in Seq(Event) /\ Len(Kept) \in Nat
  BY KeptTyped, LenProperties DEF LogInv
<1>1. [History!Next]_(History!vars)
  BY HistoryStep
<1>2. CASE History!Happens
  <2>1. /\ Len(hist') = Len(hist) + 1 /\ Kept' = Append(Kept, hist'[Len(hist')])
        /\ Len(hist) \in Nat
    BY <1>t, <1>2, LenProperties DEF History!Happens, LogTypeOK
  <2>2. PICK w \in Writer : AppendRecord(w)
    <3>1. hist' # hist
      BY <2>1
    <3> QED
      BY <3>1 DEF LogNext, logVars, Tick, WriterStep, Stamp, GivesUp, AppendFails, Stat,
         OpenForTrim, ReadKept, Truncate, WriteKept
  <2>3. PICK e \in Event : e.time = wtime[w] /\ hist' = Append(hist, e)
    BY <1>t, <2>2, Appended
  <2>4. hist'[Len(hist')] = e
    BY <1>t, <2>1, <2>3, AppendProperties DEF LogTypeOK
  <2>5. Range(Kept') = Range(Kept) \cup {e}
    BY <1>t, <2>1, <2>4, RangeAppend
  <2>6. wpc[w] = "append"
    BY <2>2 DEF AppendRecord, At
  <2> QED BY <2>3, <2>5, <2>6
<1>3. CASE History!Compact
  <2>1. Len(Kept) > Cap /\ Kept' = SubSeq(Kept, Len(Kept) - Retain + 1, Len(Kept))
    BY <1>3 DEF History!Compact
  <2>2. Len(Kept) - Retain + 1 \in Nat \ {0} /\ Len(Kept) \in 0..Len(Kept)
    BY <1>t, <2>1, LimitsAssumption
  <2> QED BY <1>t, <2>1, <2>2, RangeSubSeq
<1>4. CASE UNCHANGED History!vars
  BY <1>4 DEF History!vars
<1> QED BY <1>1, <1>2, <1>3, <1>4 DEF History!Next, History!Disorder

LEMMA HistKept ==
  ASSUME LogTypeOK, [LogNext]_logVars
  PROVE  /\ Len(hist) \in Nat /\ Len(hist') \in Nat /\ Len(hist) <= Len(hist')
         /\ Range(hist) \subseteq Range(hist')
<1>1. hist \in Seq(Event) /\ Len(hist) \in Nat
  BY LenProperties DEF LogTypeOK
<1>2. CASE UNCHANGED hist
  BY <1>1, <1>2
<1>3. ASSUME NEW w \in Writer, AppendRecord(w)
      PROVE  /\ Len(hist') \in Nat /\ Len(hist) <= Len(hist')
             /\ Range(hist) \subseteq Range(hist')
  BY <1>1, <1>3, Appended
<1> QED
  BY <1>1, <1>2, <1>3 DEF LogNext, logVars, Tick, WriterStep, Stamp, GivesUp, AppendFails,
     Stat, OpenForTrim, ReadKept, Truncate, WriteKept

(* A step of the bridge leaves the file to those who write it, and what    *)
(* the client knows to the end of a poll.                                  *)
LEMMA BridgeLeaves ==
  ASSUME BridgeSteps
  PROVE  /\ UNCHANGED <<topic, order, now, hist, file, torn>>
         /\ UNCHANGED <<got, since>> \/ PollEnds
<1> USE DEF logVars, sysVars, cliVars
<1>1. CASE \/ Accept \/ Header \/ Payload \/ Prune \/ HintEnds \/ PidsEnds \/ ConfsEnds
           \/ Exact \/ ScanEnds \/ Check \/ PollEnds
  BY <1>1 DEF Accept, Header, Payload, Prune, HintEnds, PidsEnds, ConfsEnds, Exact, ScanEnds,
     Check, PollEnds
<1>2. CASE \/ Act \/ Recheck \/ Record \/ Recorded \/ PollNext \/ Close
           \/ \E n \in Name : HintNext(n) \/ PidsNext(n) \/ ConfsNext(n) \/ ScanNext(n)
  BY <1>2 DEF Act, Recheck, Record, Recorded, PollNext, Close, HintNext, PidsNext,
     ConfsNext, ScanNext, Stamp
<1> QED BY <1>1, <1>2 DEF BridgeSteps

(* A poll that no compaction runs into sees the file grow, at most. *)
LEMMA FileUnderPoll ==
  ASSUME LogTypeOK, pc = "poll", ~torn',
         Writing \/ OthersRecord \/ UNCHANGED vars \/ \E n \in Name : EnvMoves(n)
  PROVE  ~torn /\ (UNCHANGED file \/ \E w \in Writer : AppendRecord(w))
<1>1. CASE Writing
  <2>1. PICK w \in Writer : WriterStep(w)
    BY <1>1 DEF Writing
  <2>2. ~torn /\ \A v \in Writer : wpc[v] \in {"trunc", "write"} => wpc'[v] = wpc[v]
    BY <1>1 DEF Writing, Tears
  <2>3. ~Truncate(w) /\ ~WriteKept(w)
    BY <2>2 DEF Truncate, WriteKept, At, LogTypeOK
  <2> QED
    BY <2>1, <2>2, <2>3 DEF WriterStep, AppendFails, Stat, OpenForTrim, ReadKept
<1>2. CASE OthersRecord
  BY <1>2 DEF OthersRecord, Tears, Tick, Stamp, GivesUp
<1>3. CASE UNCHANGED vars
  BY <1>3 DEF vars, cliVars, logVars
<1>4. ASSUME NEW n \in Name, EnvMoves(n) PROVE UNCHANGED <<torn, file>>
  BY <1>4 DEF EnvMoves, cliVars, logVars
<1> QED BY <1>1, <1>2, <1>3, <1>4

LEMMA PolledKept ==
  ASSUME System, Control, Counting, Arrays, LogInv, Polled, [Next]_vars
  PROVE  Polled'
<1> USE OpsAre DEF System
<1>t. /\ LogTypeOK /\ Happened /\ file \in Seq(Event) /\ Len(file) \in Nat /\ pos \in Nat
      /\ Len(hist) \in Nat /\ Len(hist') \in Nat /\ Len(hist) <= Len(hist')
      /\ Range(hist) \subseteq Range(hist') /\ Range(<<>>) = {}
  <2>1. LogTypeOK /\ Happened /\ [LogNext]_logVars
    BY LogSteps DEF LogInv
  <2>2. /\ Len(hist) \in Nat /\ Len(hist') \in Nat /\ Len(hist) <= Len(hist')
        /\ Range(hist) \subseteq Range(hist')
    BY <2>1, HistKept
  <2>3. file \in Seq(Event) /\ Len(file) \in Nat
    BY <2>1, LenProperties DEF LogTypeOK
  <2>4. pos \in Nat
    BY <2>2 DEF Polled
  <2>5. Range(<<>>) = {}
    BY DEF Range
  <2> QED BY <2>1, <2>2, <2>3, <2>4, <2>5
<1>1. CASE \/ Writing \/ OthersRecord \/ UNCHANGED vars \/ \E n \in Name : EnvMoves(n)
  <2>1. UNCHANGED <<pc, pos, out, topic, req, since>>
    BY <1>1, OthersStep
  <2>2. /\ pos' \in 0..Len(hist') /\ (pc' \in Begin => pos' = 0)
        /\ topic' = "events" => Range(out') \subseteq Range(hist')
    BY <1>t, <2>1 DEF Polled
  <2>3. ASSUME pc' = "poll", order' = "turns", ~torn'
        PROVE  /\ pos' <= Len(file') /\ Range(out') \subseteq Range(file')
               /\ \A i \in 1..pos' : file'[i] \in Range(out') \/ file'[i].time < Since'
    <3>1. Since' = Since /\ order = "turns"
      <4>1. order' = order
        BY <1>t, LogSteps, HistoryGrows
      <4> QED BY <2>1, <2>3, <4>1 DEF Since
    <3>2. ~torn /\ (UNCHANGED file \/ \E w \in Writer : AppendRecord(w))
      BY <1>t, <1>1, <2>1, <2>3, FileUnderPoll
    <3>3. /\ pos <= Len(file) /\ Range(out) \subseteq Range(file)
          /\ \A i \in 1..pos : file[i] \in Range(out) \/ file[i].time < Since
      BY <2>1, <2>3, <3>1, <3>2 DEF Polled
    <3>4. CASE UNCHANGED file
      BY <2>1, <3>1, <3>3, <3>4
    <3>5. ASSUME NEW w \in Writer, AppendRecord(w)
          PROVE  /\ Len(file) <= Len(file') /\ Range(file) \subseteq Range(file')
                 /\ \A i \in 1..Len(file) : file'[i] = file[i]
      <4>1. PICK e \in Event : file' = Append(file, e) /\ Range(file') = Range(file) \cup {e}
        BY <1>t, <3>5, Appended
      <4>2. Len(file') = Len(file) + 1 /\ \A i \in 1..Len(file) : file'[i] = file[i]
        BY <1>t, <4>1, AppendProperties
      <4> QED BY <1>t, <4>1, <4>2
    <3>6. ASSUME NEW i \in 1..pos PROVE i \in 1..Len(file)
      BY <1>t, <3>3
    <3>7. CASE \E w \in Writer : AppendRecord(w)
      <4>1. /\ Len(file) <= Len(file') /\ Range(file) \subseteq Range(file')
            /\ \A i \in 1..Len(file) : file'[i] = file[i]
        BY <3>5, <3>7
      <4>2. Len(file') \in Nat
        BY <1>t, <3>7, Appended, LenProperties
      <4> QED BY <1>t, <2>1, <3>1, <3>3, <3>6, <4>1, <4>2
    <3> QED BY <3>2, <3>4, <3>7
  <2> QED BY <2>2, <2>3 DEF Polled
<1>2. CASE Payload
  <2>1. /\ out' = <<>> /\ pos' = 0 /\ UNCHANGED <<file, hist, order, torn, req, topic, since>>
    BY <1>2, PayloadVerdict DEF Payload, Arrays, Polled, Begin, sysVars, cliVars, logVars
  <2> QED BY <1>t, <2>1 DEF Polled
<1>3. CASE PollNext
  <2>1. /\ pc = "poll" /\ topic = "events" /\ out \in Seq(Event) /\ Range(out) \subseteq Range(hist)
        /\ pos < Len(file) /\ pos' = pos + 1
        /\ UNCHANGED <<file, hist, order, torn, req, topic, since>>
    BY <1>3 DEF PollNext, Control, Arrays, Polled, sysVars, cliVars, logVars
  <2>2. file[pos + 1] \in Event /\ file[pos + 1] \in Range(file)
    <3>1. pos + 1 \in 1..Len(file)
      BY <1>t, <2>1
    <3> QED BY <1>t, <3>1, ElementOfSeq, RangeEquality
  <2>3. /\ pos' \in 0..Len(hist') /\ Range(file) \subseteq Range(hist)
        /\ pos' <= Len(file) /\ Since' = Since
    BY <1>t, <2>1 DEF Happened, Since
  <2>4. CASE UNCHANGED <<pc, out>> /\ file[pos + 1].time < Since
    <3>1. \A i \in 1..pos' : i \in 1..pos \/ i = pos + 1
      BY <1>t, <2>1
    <3> QED BY <2>1, <2>3, <2>4, <3>1 DEF Polled, Begin
  <2>5. CASE Emit(file[pos + 1], "poll")
    <3>1. /\ Len(out) <= cap /\ cap \in 0..Room /\ FirstCap <= cap
      BY <2>1 DEF Arrays
    <3>2. \/ pc' = "poll" /\ Range(out') = Range(out) \cup {file[pos + 1]}
          \/ pc' = "sent" /\ out' = out
      BY <2>1, <2>2, <2>5, <3>1, Emitted
    <3>3. CASE pc' = "sent" /\ out' = out
      BY <2>1, <2>3, <3>3 DEF Polled, Begin
    <3>4. CASE pc' = "poll" /\ Range(out') = Range(out) \cup {file[pos + 1]}
      <4>1. \A i \in 1..pos' : i \in 1..pos \/ i = pos + 1
        BY <1>t, <2>1
      <4>2. Range(out') \subseteq Range(hist')
        BY <2>1, <2>2, <2>3, <3>4
      <4>3. ASSUME order = "turns", ~torn
            PROVE  /\ Range(out') \subseteq Range(file)
                   /\ \A i \in 1..pos' : file[i] \in Range(out') \/ file[i].time < Since
        <5>1. /\ Range(out) \subseteq Range(file)
              /\ \A i \in 1..pos : file[i] \in Range(out) \/ file[i].time < Since
          BY <2>1, <4>3 DEF Polled
        <5> QED BY <2>2, <3>4, <4>1, <5>1
      <4> QED BY <2>1, <2>3, <3>4, <4>2, <4>3 DEF Polled, Begin
    <3> QED BY <3>2, <3>3, <3>4
  <2> QED BY <1>3, <2>4, <2>5 DEF PollNext
<1>4. CASE Close
  <2>1. pos' = 0 /\ out' = <<>> /\ pc' = "accept"
    BY <1>4 DEF Close, Goto
  <2> QED BY <1>t, <2>1 DEF Polled
<1>5. CASE \/ Accept \/ Header \/ Prune \/ HintEnds \/ PidsEnds \/ ConfsEnds \/ Exact
           \/ ScanEnds \/ Check \/ Act \/ Recheck \/ Record \/ Recorded \/ PollEnds
           \/ \E n \in Name : HintNext(n) \/ PidsNext(n) \/ ConfsNext(n) \/ ScanNext(n)
  <2>1. pos' = pos /\ pc' # "poll" /\ (pc' \in Begin => pc \in Begin)
    <3>1. CASE HintEnds
      BY <3>1, HintVerdict DEF HintEnds, Control, Begin
    <3>2. CASE ~HintEnds
      BY <1>5, <3>2 DEF Accept, Header, Prune, PidsEnds, ConfsEnds, Exact, ScanEnds, Check, Act,
         Recheck, Record, Recorded, PollEnds, HintNext, PidsNext, ConfsNext, ScanNext, Goto,
         Reply, Emit, Begin
    <3> QED BY <3>1, <3>2
  <2>2. topic = "events" => out' = out
    BY <1>5 DEF Accept, Header, Prune, HintEnds, PidsEnds, ConfsEnds, Exact, ScanEnds, Check,
       Act, Recheck, Record, Recorded, PollEnds, HintNext, PidsNext, ConfsNext, ScanNext,
       Control, Lists, Resolving
  <2>3. UNCHANGED <<topic, hist>>
    BY <1>5, BridgeLeaves DEF BridgeSteps
  <2> QED BY <1>t, <2>1, <2>2, <2>3 DEF Polled
<1> QED
  BY <1>1, <1>2, <1>3, <1>4, <1>5 DEF Next, BridgeSteps

LEMMA KnownKept ==
  ASSUME System, Control, Arrays, LogInv, Polled, Known, [Next]_vars
  PROVE  Known'
<1>t. /\ LogTypeOK /\ LogTypeOK' /\ [LogNext]_logVars /\ Clock /\ InTurns /\ order' = order
      /\ now \in 0..MaxTime /\ since \in 0..MaxTime /\ MaxTime \in Nat
  BY LogSteps, LogKept, HistoryGrows, LimitsAssumption DEF LogInv, LogTypeOK, Known
<1>n. now <= now'
  <2>1. now' = now \/ now' = now + 1
    BY <1>t DEF LogNext, logVars, Tick, WriterStep, AppendRecord, AppendFails, Stat,
       OpenForTrim, ReadKept, Truncate, WriteKept, Stamp, GivesUp
  <2> QED BY <1>t, <2>1
<1>w. ASSUME NEW w \in Writer, wpc'[w] = "append"
      PROVE  \/ wpc[w] = "append" /\ wtime'[w] = wtime[w]
             \/ wtime'[w] = now
  BY <1>t, <1>w DEF LogTypeOK, LogNext, logVars, Tick, WriterStep, AppendRecord, AppendFails,
     Stat, OpenForTrim, ReadKept, Truncate, WriteKept, Stamp, GivesUp, At
<1>k. order = "turns" => \A e \in Range(Kept') :
        e \in Range(Kept) \/ \E w \in Writer : wpc[w] = "append" /\ e.time = wtime[w]
  BY <1>t, KeptGrows
<1>1. CASE UNCHANGED <<got, since>> /\ torn' \in BOOLEAN /\ (torn => torn')
  <2>1. since' <= now'
    <3>1. now' \in 0..MaxTime /\ since <= now
      BY <1>t DEF LogTypeOK, Known
    <3> QED BY <1>t, <1>n, <1>1, <3>1
  <2>2. ASSUME order' = "turns", NEW w \in Writer, wpc'[w] = "append" PROVE since' <= wtime'[w]
    BY <1>t, <1>1, <1>w, <2>2 DEF Known
  <2>3. ASSUME order' = "turns", ~torn', NEW e \in Range(Kept') PROVE Has(e)'
    <3>1. CASE e \in Range(Kept)
      BY <1>t, <1>1, <2>3, <3>1 DEF Known, Has
    <3>2. ASSUME NEW w \in Writer, wpc[w] = "append", e.time = wtime[w] PROVE Has(e)'
      <4>1. since <= wtime[w]
        BY <1>t, <2>3, <3>2 DEF Known
      <4>2. wtime[w] \in 0..MaxTime
        BY <1>t DEF LogTypeOK
      <4> QED BY <1>t, <1>1, <3>2, <4>1, <4>2 DEF Has
    <3> QED BY <1>t, <1>k, <2>3, <3>1, <3>2
  <2> QED BY <1>1, <2>1, <2>2, <2>3 DEF Known
<1>2. CASE \/ Writing \/ OthersRecord \/ UNCHANGED vars \/ \E n \in Name : EnvMoves(n)
  <2>1. torn' \in BOOLEAN /\ (torn => torn')
    BY <1>2 DEF Writing, OthersRecord, Tears, vars, cliVars, EnvMoves, Known
  <2> QED BY <1>1, <1>2, <2>1, OthersStep
<1>3. CASE BridgeSteps /\ ~PollEnds
  BY <1>1, <1>3, BridgeLeaves DEF Known
<1>4. CASE PollEnds
  <2> DEFINE E == Range(out)
  <2>1. /\ pc = "poll" /\ topic = "events" /\ out \in Seq(Event) /\ pos >= Len(file)
        /\ got' = got \cup {e.id : e \in E} /\ since' = Newest(since, E)
        /\ UNCHANGED <<torn, logVars>>
    BY <1>4, OpsAre DEF PollEnds, Control, Arrays, System
  <2>2. E \in SUBSET Event /\ E \subseteq Range(hist)
    BY <2>1, RangeEquality, ElementOfSeq DEF Polled
  <2> HIDE DEF E
  <2>3. /\ since' \in 0..MaxTime /\ since' >= since /\ \A e \in E : since' >= e.time
        /\ since' = since \/ \E e \in E : since' = e.time
    BY <1>t, <2>1, <2>2, NewestIs
  <2>4. since' <= now'
    BY <1>t, <2>1, <2>2, <2>3 DEF Clock, Known, logVars
  <2>5. ASSUME order = "turns", NEW w \in Writer, wpc[w] = "append" PROVE since' <= wtime[w]
    BY <1>t, <2>2, <2>3, <2>5 DEF Clock, Known
  <2>6. Kept' = Kept
    BY <2>1 DEF Kept, logVars
  <2>7. ASSUME order = "turns", ~torn, NEW e \in Range(Kept)
        PROVE  e.id \in got' \/ e.time >= since'
    <3>0. Has(e)
      BY <2>7 DEF Known
    <3>1. CASE \E w \in Writer : wpc[w] = "write"
      <4>1. file = <<>>
        BY <1>t, <2>7, <3>1 DEF InTurns
      <4>2. E = {}
        BY <2>1, <2>7, <4>1 DEF Polled, Range, E
      <4>3. since' = since
        BY <2>3, <4>2
      <4> QED BY <2>1, <3>0, <4>3 DEF Has
    <3>2. CASE \A w \in Writer : wpc[w] # "write"
      <4>1. e \in Range(file)
        BY <2>7, <3>2 DEF Kept
      <4>2. PICK i \in 1..Len(file) : e = file[i]
        BY <1>t, <4>1, RangeEquality DEF LogTypeOK
      <4>3. i \in 1..pos
        BY <1>t, <2>1, LenProperties DEF Polled, LogTypeOK
      <4>4. e \in E \/ e.time < Since
        BY <2>1, <2>7, <4>2, <4>3 DEF Polled, E
      <4>5. e.time \in 0..MaxTime
        <5>1. file \in Seq(Event)
          BY <1>t DEF LogTypeOK
        <5>2. file[i] \in Event
          BY <5>1, ElementOfSeq
        <5> QED BY <4>2, <5>2 DEF Event
      <4>6. CASE e \in E
        BY <2>1, <4>6
      <4>7. CASE e.time < Since
        <5>1. e.time < since
          BY <1>t, <4>5, <4>7 DEF Since
        <5>2. e.id \in got
          BY <1>t, <3>0, <4>5, <5>1 DEF Has
        <5> QED BY <2>1, <5>2
      <4> QED BY <4>4, <4>6, <4>7
    <3> QED BY <3>1, <3>2
  <2>8. got' \subseteq 1..MaxEvent
    BY <2>1, <2>2 DEF Known, Event
  <2> QED
    BY <2>1, <2>3, <2>4, <2>5, <2>6, <2>7, <2>8 DEF Known, Has, logVars
<1> QED BY <1>2, <1>3, <1>4 DEF Next

-----------------------------------------------------------------------------
(***************************************************************************)
(* The theorems.                                                           *)
(***************************************************************************)
BridgeInv ==
  /\ LogInv /\ System /\ Control /\ Arrays /\ Pidfiles /\ Counting /\ Counted /\ Passed
  /\ Scanned /\ Polled /\ Known /\ ListFaithful /\ FailsOnlyWhenFull /\ RefRight

LEMMA BridgeStarts == Init => BridgeInv
<1> SUFFICES ASSUME Init PROVE BridgeInv
  OBVIOUS
<1>e. /\ <<>> \in Seq(Event) /\ <<>> \in Seq(Report) /\ Len(<<>>) = 0 /\ Range(<<>>) = {}
      /\ Cardinality(Name) \in Nat
  BY EmptySeq, BridgeAssumption, FS_CardinalityType DEF Range
<1>1. LogInv
  BY LogStarts
<1>2. System
  BY BridgeAssumption DEF Init, System
<1>3. Control
  BY DEF Init, Control, NoRequest, Begin, Resolving
<1>4. Arrays
  BY <1>2, <1>e, RoomIs DEF Init, Arrays
<1>5. Pidfiles /\ Counting /\ Counted /\ Passed
  BY <1>e DEF Init, Pidfiles, Counting, Counted, Passed
<1>6. Scanned
  BY OpsAre DEF Init, Scanned, NoRequest
<1>7. Polled
  BY <1>e DEF Init, LogInit, Polled
<1>8. Known
  <2>1. Kept = <<>>
    <3>1. file = <<>> /\ \A w \in Writer : wpc[w] # "write"
      BY DEF Init, LogInit
    <3> QED BY <3>1, KeptIs, KeptInFile
  <2>2. Range(Kept) = {}
    BY <1>e, <2>1, Zenon
  <2>3. since = 0 /\ now = 0 /\ got = {} /\ torn = FALSE /\ \A w \in Writer : wpc[w] = "idle"
    BY DEF Init, LogInit
  <2>4. \A e \in Range(Kept) : Has(e)
    BY <2>2
  <2>5. 0 \in 0..MaxTime
    BY LimitsAssumption
  <2>6. since \in 0..MaxTime /\ since <= now /\ got \subseteq 1..MaxEvent
    <3>1. since = 0 /\ now = 0 /\ got = {}
      BY <2>3
    <3> QED BY <2>5, <3>1
  <2>7. \A w \in Writer : wpc[w] # "append"
    BY <2>3
  <2>8. torn \in BOOLEAN
    <3>1. torn = FALSE
      BY DEF Init
    <3> QED BY <3>1, Zenon
  <2> QED BY <2>4, <2>6, <2>7, <2>8 DEF Known
<1>9. ListFaithful /\ FailsOnlyWhenFull /\ RefRight
  BY DEF Init, ListFaithful, FailsOnlyWhenFull, RefRight, Answered
<1> QED BY <1>1, <1>2, <1>3, <1>4, <1>5, <1>6, <1>7, <1>8, <1>9 DEF BridgeInv

LEMMA BridgeKept == BridgeInv /\ [Next]_vars => BridgeInv'
<1> SUFFICES ASSUME BridgeInv, [Next]_vars PROVE BridgeInv'
  OBVIOUS
<1> USE DEF BridgeInv
<1>1. LogInv' /\ pos \in Nat
  <2>1. Len(hist) \in Nat
    BY LenProperties DEF LogInv, LogTypeOK
  <2> QED BY <2>1, LogSteps, LogKept DEF Polled
<1>2. System' /\ Control' /\ Arrays'
  BY <1>1, SystemKept, ControlKept, ArraysKept
<1>3. Pidfiles' /\ Counting' /\ Counted' /\ Passed'
  BY PidfilesKept, CountingKept, CountedKept, PassedKept
<1>4. Scanned' /\ RefRight'
  BY ScannedKept, RefsRight
<1>5. Polled' /\ Known'
  BY PolledKept, KnownKept
<1>6. ListFaithful' /\ FailsOnlyWhenFull'
  BY <1>1, ListsRight, FailuresRight
<1> QED BY <1>1, <1>2, <1>3, <1>4, <1>5, <1>6

(* The inductive invariant of the bridge. *)
THEOREM BridgeInvariant == Spec => []BridgeInv
BY BridgeStarts, BridgeKept, PTL DEF Spec

(***************************************************************************)
(* What the bridge reports is right: a container that does not change is   *)
(* in a list once and in its state, or not at all; the counts of INFO are  *)
(* right; a reference resolves to the one container it can mean; a list    *)
(* fails only for want of room; and the event file is back within its cap  *)
(* once its writers are done.                                              *)
(***************************************************************************)
THEOREM ListsExact == Spec => []ListExact
<1>1. BridgeInv => ListExact
  <2> SUFFICES ASSUME BridgeInv PROVE ListExact
    OBVIOUS
  <2> USE DEF BridgeInv
  <2>1. TypeOK
    BY DEF TypeOK, LogInv, System, Control, Arrays, Counting, Polled, Known
  <2>2. SizeBounded
    <3>1. Len(file) \in Nat /\ Cap \in Nat
      BY LenProperties, LimitsAssumption DEF LogInv, LogTypeOK
    <3> QED BY <3>1 DEF LogInv, Watched, WillTrim, SizeBounded, Quiet
  <2> QED BY <2>1, <2>2 DEF ListExact
<1> QED BY <1>1, BridgeInvariant, PTL

(***************************************************************************)
(* An answer to start or stop is true of the container when it is given.   *)
(***************************************************************************)
THEOREM AnswersTrue == Spec => AnswerTrue
<1>1. ASSUME BridgeInv, [Next]_vars
      PROVE  [pc # "sent" /\ pc' = "sent" =>
                /\ req.op = "start" /\ resp' \in {"OK", "ALREADY_RUNNING"} => run[cur]
                /\ req.op = "stop" /\ resp' \in {"OK", "ALREADY_STOPPED"} => ~run[cur]]_vars
  <2> USE OpsAre DEF BridgeInv
  <2> SUFFICES ASSUME pc # "sent", pc' = "sent", req.op \in {"start", "stop"}
               PROVE  /\ req.op = "start" /\ resp' \in {"OK", "ALREADY_RUNNING"} => run[cur]
                      /\ req.op = "stop" /\ resp' \in {"OK", "ALREADY_STOPPED"} => ~run[cur]
    OBVIOUS
  <2>1. CASE \/ Writing \/ OthersRecord \/ UNCHANGED vars \/ \E n \in Name : EnvMoves(n)
    BY <1>1, <2>1, OthersStep
  <2>2. CASE \/ Header \/ Exact \/ ScanEnds \/ Act \/ \E n \in Name : ScanNext(n)
    BY <2>2 DEF Header, Exact, ScanEnds, Act, ScanNext, Goto, Reply
  <2>3. CASE Check \/ Recheck
    BY <1>1, <2>3 DEF Check, Recheck, Goto, Reply, is_container_running, Alive, Control, System
  <2>4. CASE Payload \/ HintEnds
    BY <1>1, <2>4, PayloadVerdict, HintVerdict DEF HintEnds, Control, Lists
  <2>5. CASE \/ Accept \/ Prune \/ PidsEnds \/ ConfsEnds \/ Record \/ Recorded \/ PollNext
             \/ PollEnds \/ Close \/ \E n \in Name : HintNext(n) \/ PidsNext(n) \/ ConfsNext(n)
    BY <1>1, <2>5 DEF Accept, Prune, PidsEnds, ConfsEnds, Record, Recorded, PollNext, PollEnds, Close,
       HintNext, PidsNext, ConfsNext, Goto, Control, Lists
  <2> QED BY <1>1, <2>1, <2>2, <2>3, <2>4, <2>5 DEF Next, BridgeSteps
<1> QED BY <1>1, BridgeInvariant, PTL DEF Spec, AnswerTrue

(***************************************************************************)
(* A client that polls with the time of its newest event misses none that  *)
(* is in the file, as long as writers take turns and no compaction ran     *)
(* into a poll of its.                                                     *)
(***************************************************************************)
THEOREM PollsMissNothing == Spec => NothingMissed
<1>1. ASSUME BridgeInv, [Next]_vars
      PROVE  [pc = "poll" /\ pc' = "sent" /\ resp' = "OK" /\ order = "turns" /\ ~torn =>
                {e.id : e \in Range(file)} \subseteq got']_vars
  <2> USE DEF BridgeInv
  <2> SUFFICES ASSUME pc = "poll", pc' = "sent", resp' = "OK", order = "turns", ~torn,
                      NEW e \in Range(file)
               PROVE  e.id \in got'
    OBVIOUS
  <2>1. PollEnds
    <3>1. CASE \/ Writing \/ OthersRecord \/ UNCHANGED vars \/ \E n \in Name : EnvMoves(n)
      BY <1>1, <3>1, OthersStep
    <3>2. CASE BridgeSteps
      BY <1>1, <3>2 DEF BridgeSteps, Accept, Header, Payload, Prune, HintEnds, PidsEnds, ConfsEnds,
         Exact, ScanEnds, Check, Act, Recheck, Record, Recorded, PollNext, Close, HintNext,
         PidsNext, ConfsNext, ScanNext, Emit, Goto, Reply, Control
    <3> QED BY <1>1, <3>1, <3>2 DEF Next
  <2>2. /\ pos >= Len(file) /\ got' = got \cup {x.id : x \in Range(out)}
        /\ LogTypeOK /\ file \in Seq(Event) /\ Len(file) \in Nat /\ pos \in Int
    BY <1>1, <2>1, LenProperties DEF PollEnds, LogInv, LogTypeOK, Polled
  <2>3. PICK i \in 1..Len(file) : e = file[i]
    BY <2>2, RangeEquality
  <2>4. i \in 1..pos /\ e.time \in 0..MaxTime
    <3>1. file[i] \in Event
      BY <2>2, ElementOfSeq
    <3> QED BY <2>2, <2>3, <3>1 DEF Event
  <2>5. e \in Range(out) \/ e.time < Since
    BY <1>1, <2>3, <2>4 DEF Polled
  <2>6. CASE e.time < Since
    <3>1. Kept = file
      <4>1. file # <<>>
        BY DEF Range
      <4>2. \A w \in Writer : wpc[w] # "write"
        BY <1>1, <4>1 DEF LogInv, InTurns
      <4> QED BY <4>2 DEF Kept
    <3>2. Has(e)
      BY <1>1, <3>1 DEF Known
    <3>3. since \in 0..MaxTime /\ e.time < since
      BY <1>1, <2>4, <2>6 DEF Known, Since
    <3> QED BY <2>2, <2>4, <3>2, <3>3 DEF Has
  <2> QED BY <2>2, <2>5, <2>6
<1> QED BY <1>1, BridgeInvariant, PTL DEF Spec, NothingMissed
=============================================================================
