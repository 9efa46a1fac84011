--------------------------- MODULE ArchivesProofs ---------------------------
(***************************************************************************)
(* What the store keeps is what was meant, a restore works on it, and      *)
(* working directories are deleted, all but for the trouble that each of   *)
(* StoredWhole, RoundTrip and Tidy of Archives names: for every world, map *)
(* of filters, number of missions and kind, number and size of faults.     *)
(*                                                                         *)
(* The agenda of a mission is the program that is left to run, and all it  *)
(* can ever be is the rest of one of four lines: that of a backup, that of *)
(* a restore, that of an upload that failed and that of a process that     *)
(* ends.  So it has 28 values, one for each place in these lines, and the  *)
(* inductive invariant is an assertion per place, as of a sequential       *)
(* program: which files are there and what they hold (Written), what a     *)
(* restore reads (Reading) and which directories are still to be deleted   *)
(* (Swept).  None of the three properties is inductive alone: StoredWhole  *)
(* needs Written at the uploads, RoundTrip needs that at the unpacking,    *)
(* with the fact that only files of an archive's own objects are ever cut  *)
(* short (Sane), and Tidy must know that the deletion of each directory is *)
(* on what is left of the agenda.                                          *)
(***************************************************************************)
EXTENDS Archives, SequenceTheorems, TLAPS

-----------------------------------------------------------------------------
(* The lines.                                                              *)

\* What may be on an agenda.
Parts ==
  {<<"open", "log">>, <<"discover", "tree">>, <<"build", "tree">>, <<"find", "tree">>,
   <<"fetch", "tree">>, <<"unpack", "tree">>, <<"filter", "tree">>, <<"compare", "tree">>,
   <<"check", "tree">>, <<"upload", "tree">>, RestartStep}
   \cup {<<"write", "json">>, <<"write", "yaml">>, <<"write", "status">>}
   \cup {<<"pack", "json">>, <<"pack", "yaml">>, <<"pack", "log">>, <<"pack", "status">>}
   \cup {<<"ship", "log">>, <<"ship", "status">>}
   \cup {<<"delete", "core">>, <<"delete", "log">>, <<"delete", "down">>}

\* The whole of a backup, of a restore, of what is left when an upload fails,
\* and of what is left when a filter ends the process.
BackupLine == Steps("backup")
RestoreLine == Steps("restore")
ClosingLine == <<<<"delete", "core">>, <<"delete", "log">>>>
PanicLine == <<<<"delete", "down">>, <<"delete", "log">>, RestartStep>>

\* Literal tuples are sequences.
LEMMA Tuples ==
  ASSUME NEW S, NEW a \in S, NEW b \in S, NEW c \in S
  PROVE  /\ <<a, b, c>> \in Seq(S)
         /\ \A d, e, f \in S : <<a, b, c, d, e, f>> \in Seq(S)
         /\ \A d, e, f, g \in S : <<a, b, c, d, e, f, g>> \in Seq(S)
  <1>1. <<a, b, c>> \in Seq(S)
    OBVIOUS
  <1>2. \A d, e, f \in S : <<a, b, c, d, e, f>> \in Seq(S)
    OBVIOUS
  <1>3. \A d, e, f, g \in S : <<a, b, c, d, e, f, g>> \in Seq(S)
    OBVIOUS
  <1> QED BY <1>1, <1>2, <1>3

\* The part of a mission that stores its tree, step by step.
LEMMA StoreStepsAre ==
  /\ StoreSteps \in Seq(Parts) /\ Len(StoreSteps) = 7
  /\ StoreSteps[1] = <<"check", "tree">> /\ StoreSteps[2] = <<"write", "json">>
  /\ StoreSteps[3] = <<"write", "yaml">> /\ StoreSteps[4] = <<"pack", "json">>
  /\ StoreSteps[5] = <<"pack", "yaml">> /\ StoreSteps[6] = <<"upload", "tree">>
  /\ StoreSteps[7] = <<"delete", "core">>
  <1>2. /\ <<"check", "tree">> \in Parts /\ <<"write", "json">> \in Parts
        /\ <<"write", "yaml">> \in Parts /\ <<"pack", "json">> \in Parts
        /\ <<"pack", "yaml">> \in Parts /\ <<"upload", "tree">> \in Parts
        /\ <<"delete", "core">> \in Parts
    BY DEF Parts
  <1>3. StoreSteps \in Seq(Parts)
    BY <1>2, Tuples DEF StoreSteps
  <1> QED BY <1>3 DEF StoreSteps

\* The part of a mission that stores its log.
LEMMA LogStepsAre ==
  /\ LogSteps \in Seq(Parts) /\ Len(LogSteps) = 6
  /\ LogSteps[1] = <<"write", "status">> /\ LogSteps[2] = <<"pack", "log">>
  /\ LogSteps[3] = <<"pack", "status">> /\ LogSteps[4] = <<"ship", "log">>
  /\ LogSteps[5] = <<"ship", "status">> /\ LogSteps[6] = <<"delete", "log">>
  <1>2. /\ <<"write", "status">> \in Parts /\ <<"pack", "log">> \in Parts
        /\ <<"pack", "status">> \in Parts /\ <<"ship", "log">> \in Parts
        /\ <<"ship", "status">> \in Parts /\ <<"delete", "log">> \in Parts
    BY DEF Parts
  <1>3. LogSteps \in Seq(Parts)
    BY <1>2, Tuples DEF LogSteps
  <1> QED BY <1>3 DEF LogSteps

\* The entries of two sequences, one after the other.
LEMMA Joined ==
  ASSUME NEW c \in Seq(Parts), NEW d \in Seq(Parts)
  PROVE  /\ c \o d \in Seq(Parts) /\ Len(c \o d) = Len(c) + Len(d)
         /\ \A i \in 1..Len(c) : (c \o d)[i] = c[i]
         /\ \A i \in 1..Len(d) : (c \o d)[Len(c) + i] = d[i]
  <1> DEFINE s == c \o d
  <1>1. /\ s \in Seq(Parts) /\ Len(s) = Len(c) + Len(d)
        /\ \A i \in 1..(Len(c) + Len(d)) : s[i] = IF i <= Len(c) THEN c[i] ELSE d[i - Len(c)]
    BY ConcatProperties, Zenon
  <1> HIDE DEF s
  <1>2. Len(c) \in Nat /\ Len(d) \in Nat
    OBVIOUS
  <1>3. ASSUME NEW i \in 1..Len(c) PROVE s[i] = c[i]
    BY <1>1, <1>2
  <1>4. ASSUME NEW i \in 1..Len(d) PROVE s[Len(c) + i] = d[i]
    <2>1. /\ Len(c) + i \in 1..(Len(c) + Len(d)) /\ ~(Len(c) + i <= Len(c))
          /\ Len(c) + i - Len(c) = i
      BY <1>2
    <2> QED BY <1>1, <2>1
  <1> QED BY <1>1, <1>3, <1>4 DEF s

\* Both parts at the end of any line.
LEMMA StoredAndLogged ==
  ASSUME NEW c \in Seq(Parts)
  PROVE  LET s == c \o StoreSteps \o LogSteps IN
         /\ s \in Seq(Parts) /\ Len(s) = Len(c) + 13
         /\ \A i \in 1..Len(c) : s[i] = c[i]
         /\ \A i \in 1..7 : s[Len(c) + i] = StoreSteps[i]
         /\ \A i \in 1..6 : s[Len(c) + 7 + i] = LogSteps[i]
  <1> DEFINE t == c \o StoreSteps
             s == t \o LogSteps
  <1>1. StoreSteps \in Seq(Parts) /\ LogSteps \in Seq(Parts)
    BY StoreStepsAre, LogStepsAre
  <1>2. /\ t \in Seq(Parts) /\ Len(t) = Len(c) + Len(StoreSteps)
        /\ \A i \in 1..Len(c) : t[i] = c[i]
        /\ \A i \in 1..Len(StoreSteps) : t[Len(c) + i] = StoreSteps[i]
    BY <1>1, Joined, Zenon
  <1> HIDE DEF t
  <1>3. /\ s \in Seq(Parts) /\ Len(s) = Len(t) + Len(LogSteps)
        /\ \A i \in 1..Len(t) : s[i] = t[i]
        /\ \A i \in 1..Len(LogSteps) : s[Len(t) + i] = LogSteps[i]
    BY <1>1, <1>2, Joined, Zenon
  <1> HIDE DEF s
  <1>0. Len(c) \in Nat /\ Len(StoreSteps) = 7 /\ Len(LogSteps) = 6
    <2>1. Len(StoreSteps) = 7 /\ Len(LogSteps) = 6
      BY StoreStepsAre, LogStepsAre
    <2>2. Len(c) \in Nat
      OBVIOUS
    <2> QED BY <2>1, <2>2
  <1>4. ASSUME NEW i \in 1..Len(c) PROVE s[i] = c[i]
    <2>1. i \in 1..Len(t)
      BY <1>0, <1>2
    <2> QED BY <1>2, <1>3, <2>1, Zenon
  <1>5. ASSUME NEW i \in 1..7 PROVE s[Len(c) + i] = StoreSteps[i]
    <2>1. Len(c) + i \in 1..Len(t) /\ i \in 1..Len(StoreSteps)
      BY <1>0, <1>2
    <2> QED BY <1>2, <1>3, <2>1
  <1>6. ASSUME NEW i \in 1..6 PROVE s[Len(c) + 7 + i] = LogSteps[i]
    <2>1. Len(c) + 7 = Len(t) /\ i \in 1..Len(LogSteps)
      BY <1>0, <1>2
    <2> QED BY <1>3, <2>1
  <1>7. s \in Seq(Parts) /\ Len(s) = Len(c) + 13
    BY <1>0, <1>1, <1>2, <1>3
  <1> QED BY <1>4, <1>5, <1>6, <1>7 DEF s, t

\* The line of a backup.
LEMMA BackupSteps ==
  /\ BackupLine \in Seq(Parts) /\ Len(BackupLine) = 16
  /\ BackupLine[1] = <<"open", "log">>
  /\ BackupLine[2] = <<"discover", "tree">>
  /\ BackupLine[3] = <<"build", "tree">>
  /\ \A i \in 1..7 : BackupLine[3 + i] = StoreSteps[i]
  /\ \A i \in 1..6 : BackupLine[10 + i] = LogSteps[i]
  <1> DEFINE c == <<<<"open", "log">>, <<"discover", "tree">>, <<"build",
                 "tree">>>>
  <1>1. /\ <<"open", "log">> \in Parts
        /\ <<"discover", "tree">> \in Parts
        /\ <<"build", "tree">> \in Parts
    BY DEF Parts
  <1>2. c \in Seq(Parts)
    BY <1>1, Tuples, Zenon
  <1>3. /\ Len(c) = 3
        /\ c[1] = <<"open", "log">>
        /\ c[2] = <<"discover", "tree">>
        /\ c[3] = <<"build", "tree">>
    OBVIOUS
  <1>4. BackupLine = c \o StoreSteps \o LogSteps
    BY DEF BackupLine, Steps
  <1> HIDE DEF c
  <1>5. /\ BackupLine \in Seq(Parts) /\ Len(BackupLine) = Len(c) + 13
        /\ \A i \in 1..Len(c) : BackupLine[i] = c[i]
        /\ \A i \in 1..7 : BackupLine[Len(c) + i] = StoreSteps[i]
        /\ \A i \in 1..6 : BackupLine[Len(c) + 7 + i] = LogSteps[i]
    BY <1>2, <1>4, StoredAndLogged, Zenon
  <1>6. Len(BackupLine) = 16
    BY <1>3, <1>5
  <1>7. /\ BackupLine[1] = c[1]
        /\ BackupLine[2] = c[2]
        /\ BackupLine[3] = c[3]
    BY <1>3, <1>5
  <1>8. /\ \A i \in 1..7 : BackupLine[3 + i] = StoreSteps[i]
        /\ \A i \in 1..6 : BackupLine[10 + i] = LogSteps[i]
    BY <1>3, <1>5
  <1> QED BY <1>3, <1>5, <1>6, <1>7, <1>8, Zenon

\* The line of a restore.
LEMMA RestoreSteps ==
  /\ RestoreLine \in Seq(Parts) /\ Len(RestoreLine) = 20
  /\ RestoreLine[1] = <<"open", "log">>
  /\ RestoreLine[2] = <<"find", "tree">>
  /\ RestoreLine[3] = <<"fetch", "tree">>
  /\ RestoreLine[4] = <<"unpack", "tree">>
  /\ RestoreLine[5] = <<"filter", "tree">>
  /\ RestoreLine[6] = <<"delete", "down">>
  /\ RestoreLine[7] = <<"compare", "tree">>
  /\ \A i \in 1..7 : RestoreLine[7 + i] = StoreSteps[i]
  /\ \A i \in 1..6 : RestoreLine[14 + i] = LogSteps[i]
  <1> DEFINE c == <<<<"open", "log">>, <<"find", "tree">>, <<"fetch", "tree">>,
                 <<"unpack", "tree">>, <<"filter", "tree">>, <<"delete",
                 "down">>, <<"compare", "tree">>>>
  <1>1. /\ <<"open", "log">> \in Parts
        /\ <<"find", "tree">> \in Parts
        /\ <<"fetch", "tree">> \in Parts
        /\ <<"unpack", "tree">> \in Parts
        /\ <<"filter", "tree">> \in Parts
        /\ <<"delete", "down">> \in Parts
        /\ <<"compare", "tree">> \in Parts
    BY DEF Parts
  <1>2. c \in Seq(Parts)
    BY <1>1, Tuples, Zenon
  <1>3. /\ Len(c) = 7
        /\ c[1] = <<"open", "log">>
        /\ c[2] = <<"find", "tree">>
        /\ c[3] = <<"fetch", "tree">>
        /\ c[4] = <<"unpack", "tree">>
        /\ c[5] = <<"filter", "tree">>
        /\ c[6] = <<"delete", "down">>
        /\ c[7] = <<"compare", "tree">>
    OBVIOUS
  <1>4. RestoreLine = c \o StoreSteps \o LogSteps
    BY SMTT(30) DEF RestoreLine, Steps
  <1> HIDE DEF c
  <1>5. /\ RestoreLine \in Seq(Parts) /\ Len(RestoreLine) = Len(c) + 13
        /\ \A i \in 1..Len(c) : RestoreLine[i] = c[i]
        /\ \A i \in 1..7 : RestoreLine[Len(c) + i] = StoreSteps[i]
        /\ \A i \in 1..6 : RestoreLine[Len(c) + 7 + i] = LogSteps[i]
    BY <1>2, <1>4, StoredAndLogged, Zenon
  <1>6. Len(RestoreLine) = 20
    BY <1>3, <1>5
  <1>7. /\ RestoreLine[1] = c[1]
        /\ RestoreLine[2] = c[2]
        /\ RestoreLine[3] = c[3]
        /\ RestoreLine[4] = c[4]
        /\ RestoreLine[5] = c[5]
        /\ RestoreLine[6] = c[6]
        /\ RestoreLine[7] = c[7]
    <2>1. 1 \in 1..Len(c) /\ 2 \in 1..Len(c) /\ 3 \in 1..Len(c) /\ 4 \in 1..Len(c)
          /\ 5 \in 1..Len(c) /\ 6 \in 1..Len(c) /\ 7 \in 1..Len(c)
      BY <1>3
    <2> QED BY <1>5, <2>1, Zenon
  <1>8. /\ \A i \in 1..7 : RestoreLine[7 + i] = StoreSteps[i]
        /\ \A i \in 1..6 : RestoreLine[14 + i] = LogSteps[i]
    BY <1>3, <1>5
  <1> QED BY <1>3, <1>5, <1>6, <1>7, <1>8, Zenon

\* The two short lines.
LEMMA ShortLines ==
  /\ ClosingLine \in Seq(Parts) /\ Len(ClosingLine) = 2
  /\ ClosingLine[1] = <<"delete", "core">> /\ ClosingLine[2] = <<"delete", "log">>
  /\ PanicLine \in Seq(Parts) /\ Len(PanicLine) = 3
  /\ PanicLine[1] = <<"delete", "down">> /\ PanicLine[2] = <<"delete", "log">> /\ PanicLine[3] = RestartStep
  <1>1. /\ <<"delete", "core">> \in Parts /\ <<"delete", "log">> \in Parts
        /\ <<"delete", "down">> \in Parts /\ RestartStep \in Parts
    BY DEF Parts
  <1>2. /\ \A a, b \in Parts : <<a, b>> \in Seq(Parts)
        /\ \A a, b, c \in Parts : <<a, b, c>> \in Seq(Parts)
    OBVIOUS
  <1>3. ClosingLine \in Seq(Parts) /\ PanicLine \in Seq(Parts)
    BY <1>1, <1>2 DEF ClosingLine, PanicLine
  <1>4. /\ Len(ClosingLine) = 2 /\ ClosingLine[1] = <<"delete", "core">> /\ ClosingLine[2] = <<"delete", "log">>
        /\ Len(PanicLine) = 3 /\ PanicLine[1] = <<"delete", "down">> /\ PanicLine[2] = <<"delete", "log">>
        /\ PanicLine[3] = RestartStep
    BY DEF ClosingLine, PanicLine
  <1> QED BY <1>3, <1>4

-----------------------------------------------------------------------------
(* The places.                                                             *)

\* Numbered from the end of a restore, which is also that of a backup: 0 is
\* the end, 13 the check for a name in the store, 20 the begin of a restore,
\* 21 to 23 the begin of a backup, 24 a failed upload, 25 to 27 a panic; a
\* process that was killed is at 27.
Places == 0..27
Line(p) ==
  IF p <= 20 THEN RestoreLine ELSE IF p <= 23 THEN BackupLine
  ELSE IF p = 24 THEN ClosingLine ELSE PanicLine
Index(p) ==
  IF p <= 20 THEN 21 - p ELSE IF p <= 23 THEN 24 - p
  ELSE IF p = 24 THEN 1 ELSE p - 24

\* The next step at a place, what is left to do there, and the place after.
Entry(p) == Line(p)[Index(p)]
Rest(p) == SubSeq(Line(p), Index(p), Len(Line(p)))
After(p) ==
  IF p = 21 THEN 13 ELSE IF p = 24 THEN 1 ELSE IF p = 27 THEN 0
  ELSE IF p \in {25, 26} THEN p + 1 ELSE p - 1

\* The type and the length of every line.
LEMMA Lines ==
  /\ RestoreLine \in Seq(Parts) /\ Len(RestoreLine) = 20
  /\ BackupLine \in Seq(Parts) /\ Len(BackupLine) = 16
  /\ ClosingLine \in Seq(Parts) /\ Len(ClosingLine) = 2
  /\ PanicLine \in Seq(Parts) /\ Len(PanicLine) = 3
  BY BackupSteps, RestoreSteps, ShortLines, Zenon

\* A place is an index of its line, or the end.
LEMMA LineFacts ==
  ASSUME NEW p \in Places
  PROVE  /\ Line(p) \in Seq(Parts) /\ Len(Line(p)) \in {2, 3, 16, 20}
         /\ Index(p) \in 1..(Len(Line(p)) + 1)
         /\ p # 0 => Index(p) \in 1..Len(Line(p))
  <1>1. CASE p <= 20
    <2>1. Line(p) = RestoreLine /\ Index(p) = 21 - p
      BY <1>1 DEF Line, Index
    <2>2. Line(p) \in Seq(Parts) /\ Len(Line(p)) = 20
      BY <2>1, Lines, Zenon
    <2> QED BY <1>1, <2>1, <2>2 DEF Places
  <1>2. CASE p > 20 /\ p <= 23
    <2>1. Line(p) = BackupLine /\ Index(p) = 24 - p
      BY <1>2 DEF Line, Index, Places
    <2>2. Line(p) \in Seq(Parts) /\ Len(Line(p)) = 16
      BY <2>1, Lines, Zenon
    <2> QED BY <1>2, <2>1, <2>2 DEF Places
  <1>3. CASE p = 24
    <2>1. Line(p) = ClosingLine /\ Index(p) = 1
      BY <1>3 DEF Line, Index
    <2>2. Line(p) \in Seq(Parts) /\ Len(Line(p)) = 2
      BY <2>1, Lines, Zenon
    <2> QED BY <2>1, <2>2
  <1>4. CASE p > 24
    <2>1. Line(p) = PanicLine /\ Index(p) = p - 24
      BY <1>4 DEF Line, Index, Places
    <2>2. Line(p) \in Seq(Parts) /\ Len(Line(p)) = 3
      BY <2>1, Lines, Zenon
    <2> QED BY <1>4, <2>1, <2>2 DEF Places
  <1> QED BY <1>1, <1>2, <1>3, <1>4 DEF Places

\* The first step of a rest, and what comes after it.
LEMMA Heads ==
  ASSUME NEW p \in Places \ {0}
  PROVE  /\ Rest(p) # <<>>
         /\ Head(Rest(p)) = Line(p)[Index(p)]
         /\ Tail(Rest(p)) = SubSeq(Line(p), Index(p) + 1, Len(Line(p)))
  <1>1. /\ Line(p) \in Seq(Parts) /\ Index(p) \in 1..Len(Line(p))
        /\ Len(Line(p)) \in Index(p)..Len(Line(p))
    BY LineFacts
  <1>2. /\ Head(Rest(p)) = Line(p)[Index(p)]
        /\ Tail(Rest(p)) = SubSeq(Line(p), Index(p) + 1, Len(Line(p)))
    BY <1>1, HeadTailOfSubSeq DEF Rest
  <1>3. Len(Rest(p)) = Len(Line(p)) - Index(p) + 1
    BY <1>1, SubSeqProperties DEF Rest
  <1>4. Len(<<>>) = 0
    OBVIOUS
  <1> QED BY <1>1, <1>2, <1>3, <1>4

\* After a step comes the rest of another place: a backup and a restore end
\* alike, and so do all lines but that of a panic.
LEMMA Tails ==
  ASSUME NEW p \in Places \ {0}
  PROVE  After(p) \in Places /\ Tail(Rest(p)) = Rest(After(p))
  <1>1. After(p) \in Places
    BY DEF After, Places
  <1>2. CASE p \notin {21, 24, 27}
    <2>1. Line(After(p)) = Line(p) /\ Index(After(p)) = Index(p) + 1
      BY <1>2 DEF Places, Line, Index, After
    <2> QED BY <1>1, <2>1, Heads DEF Rest
  <1>3. CASE p = 21
    <2>1. SubSeq(BackupLine, 4, 16) = SubSeq(RestoreLine, 8, 20)
      <3>1. \A i \in 4..16 : BackupLine[i] \in Parts /\ BackupLine[i] = RestoreLine[i + 4]
        <4>1. ASSUME NEW i \in 1..7 PROVE BackupLine[3 + i] = RestoreLine[7 + i]
          <5>1. BackupLine[3 + i] = StoreSteps[i]
            BY BackupSteps
          <5>2. RestoreLine[7 + i] = StoreSteps[i]
            BY RestoreSteps
          <5> QED BY <5>1, <5>2
        <4>2. ASSUME NEW i \in 1..6 PROVE BackupLine[10 + i] = RestoreLine[14 + i]
          <5>1. BackupLine[10 + i] = LogSteps[i]
            BY BackupSteps
          <5>2. RestoreLine[14 + i] = LogSteps[i]
            BY RestoreSteps
          <5> QED BY <5>1, <5>2
        <4>3. ASSUME NEW i \in 4..10 PROVE BackupLine[i] = RestoreLine[i + 4]
          <5>1. i - 3 \in 1..7 /\ 3 + (i - 3) = i /\ 7 + (i - 3) = i + 4
            OBVIOUS
          <5> QED BY <4>1, <5>1
        <4>4. ASSUME NEW i \in 11..16 PROVE BackupLine[i] = RestoreLine[i + 4]
          <5>1. i - 10 \in 1..6 /\ 10 + (i - 10) = i /\ 14 + (i - 10) = i + 4
            OBVIOUS
          <5> QED BY <4>2, <5>1
        <4>5. \A i \in 1..Len(BackupLine) : BackupLine[i] \in Parts
          BY Lines, ElementOfSeq
        <4>6. \A i \in 4..16 : i \in 1..16 /\ (i \in 4..10 \/ i \in 11..16)
          OBVIOUS
        <4>7. Len(BackupLine) = 16
          BY Lines
        <4> QED BY <4>3, <4>4, <4>5, <4>6, <4>7, Zenon
      <3>2. ASSUME NEW i \in 8..20 PROVE RestoreLine[i] \in Parts
        <4>1. Len(RestoreLine) = 20 /\ RestoreLine \in Seq(Parts)
          BY Lines
        <4>2. i \in 1..Len(RestoreLine)
          BY <4>1
        <4> QED BY <4>1, <4>2, ElementOfSeq
      <3>3. /\ SubSeq(BackupLine, 4, 16) \in Seq(Parts) /\ Len(SubSeq(BackupLine, 4, 16)) = 13
            /\ \A i \in 1..13 : SubSeq(BackupLine, 4, 16)[i] = BackupLine[4 + i - 1]
        BY <3>1, SubSeqProperties
      <3>4. /\ SubSeq(RestoreLine, 8, 20) \in Seq(Parts) /\ Len(SubSeq(RestoreLine, 8, 20)) = 13
            /\ \A i \in 1..13 : SubSeq(RestoreLine, 8, 20)[i] = RestoreLine[8 + i - 1]
        BY <3>2, SubSeqProperties
      <3>5. ASSUME NEW i \in 1..13 PROVE SubSeq(BackupLine, 4, 16)[i] = SubSeq(RestoreLine, 8, 20)[i]
        <4>1. 4 + i - 1 \in 4..16 /\ 4 + i - 1 + 4 = 8 + i - 1
          OBVIOUS
        <4> QED BY <3>1, <3>3, <3>4, <4>1
      <3> QED BY <3>3, <3>4, <3>5, SeqEqual
    <2>2. Line(21) = BackupLine /\ Index(21) = 3 /\ Line(13) = RestoreLine /\ Index(13) = 8 /\ After(21) = 13
      BY DEF Line, Index, After
    <2>3. Tail(Rest(21)) = SubSeq(BackupLine, 4, 16) /\ Rest(13) = SubSeq(RestoreLine, 8, 20)
      <3>1. Tail(Rest(21)) = SubSeq(Line(21), Index(21) + 1, Len(Line(21)))
        <4>1. 21 \in Places \ {0}
          BY DEF Places
        <4> QED BY <4>1, Heads
      <3>2. Len(BackupLine) = 16 /\ Len(RestoreLine) = 20
        BY Lines
      <3>3. Tail(Rest(21)) = SubSeq(BackupLine, 4, 16)
        <4>1. Line(21) = BackupLine /\ Index(21) + 1 = 4
          BY <2>2
        <4> QED BY <3>1, <3>2, <4>1, Zenon
      <3>4. Rest(13) = SubSeq(RestoreLine, 8, 20)
        BY <2>2, <3>2 DEF Rest
      <3> QED BY <3>3, <3>4
    <2> QED BY <1>1, <1>3, <2>1, <2>2, <2>3
  <1>4. CASE p = 24
    <2>1. Line(24) = ClosingLine /\ Index(24) = 1 /\ Line(1) = RestoreLine /\ Index(1) = 20 /\ After(24) = 1
      BY DEF Line, Index, After
    <2>2. SubSeq(ClosingLine, 2, 2) = SubSeq(RestoreLine, 20, 20)
      <3>1. ClosingLine[2] \in Parts /\ RestoreLine[20] \in Parts
        <4>1. /\ \A i \in 1..Len(RestoreLine) : RestoreLine[i] \in Parts
              /\ \A i \in 1..Len(ClosingLine) : ClosingLine[i] \in Parts
          BY Lines, ElementOfSeq
        <4> QED BY <4>1, Lines
      <3>2. ClosingLine[2] = RestoreLine[20]
        <4>1. RestoreLine[14 + 6] = LogSteps[6] /\ LogSteps[6] = <<"delete", "log">>
          <5>1. \A i \in 1..6 : RestoreLine[14 + i] = LogSteps[i]
            BY RestoreSteps
          <5> QED BY <5>1, LogStepsAre
        <4>2. ClosingLine[2] = <<"delete", "log">>
          BY ShortLines
        <4> QED BY <4>1, <4>2
      <3>3. /\ SubSeq(ClosingLine, 2, 2) \in Seq(Parts) /\ Len(SubSeq(ClosingLine, 2, 2)) = 1
            /\ \A i \in 1..1 : SubSeq(ClosingLine, 2, 2)[i] = ClosingLine[2 + i - 1]
        BY <3>1, SubSeqProperties
      <3>4. /\ SubSeq(RestoreLine, 20, 20) \in Seq(Parts) /\ Len(SubSeq(RestoreLine, 20, 20)) = 1
            /\ \A i \in 1..1 : SubSeq(RestoreLine, 20, 20)[i] = RestoreLine[20 + i - 1]
        BY <3>1, SubSeqProperties
      <3>5. \A i \in 1..1 : SubSeq(ClosingLine, 2, 2)[i] = SubSeq(RestoreLine, 20, 20)[i]
        BY <3>2, <3>3, <3>4
      <3> QED BY <3>3, <3>4, <3>5, SeqEqual
    <2>3. Tail(Rest(24)) = SubSeq(ClosingLine, 2, 2) /\ Rest(1) = SubSeq(RestoreLine, 20, 20)
      <3>1. Tail(Rest(24)) = SubSeq(Line(24), Index(24) + 1, Len(Line(24)))
        <4>1. 24 \in Places \ {0}
          BY DEF Places
        <4> QED BY <4>1, Heads
      <3>2. Len(ClosingLine) = 2 /\ Len(RestoreLine) = 20
        BY Lines
      <3>3. Tail(Rest(24)) = SubSeq(ClosingLine, 2, 2)
        <4>1. Line(24) = ClosingLine /\ Index(24) + 1 = 2
          BY <2>1
        <4> QED BY <3>1, <3>2, <4>1, Zenon
      <3>4. Rest(1) = SubSeq(RestoreLine, 20, 20)
        BY <2>1, <3>2 DEF Rest
      <3> QED BY <3>3, <3>4
    <2> QED BY <1>1, <1>4, <2>1, <2>2, <2>3
  <1>5. CASE p = 27
    <2>1. Line(27) = PanicLine /\ Index(27) = 3 /\ Line(0) = RestoreLine /\ Index(0) = 21 /\ After(27) = 0
      BY DEF Line, Index, After
    <2>2. SubSeq(PanicLine, 4, 3) = <<>> /\ SubSeq(RestoreLine, 21, 20) = <<>>
      BY SubSeqEmpty
    <2>3. Tail(Rest(27)) = SubSeq(PanicLine, 4, 3) /\ Rest(0) = SubSeq(RestoreLine, 21, 20)
      <3>1. Tail(Rest(27)) = SubSeq(Line(27), Index(27) + 1, Len(Line(27)))
        <4>1. 27 \in Places \ {0}
          BY DEF Places
        <4> QED BY <4>1, Heads
      <3>2. Len(PanicLine) = 3 /\ Len(RestoreLine) = 20
        BY Lines
      <3>3. Tail(Rest(27)) = SubSeq(PanicLine, 4, 3)
        <4>1. Line(27) = PanicLine /\ Index(27) + 1 = 4
          BY <2>1
        <4> QED BY <3>1, <3>2, <4>1, Zenon
      <3>4. Rest(0) = SubSeq(RestoreLine, 21, 20)
        BY <2>1, <3>2 DEF Rest
      <3> QED BY <3>3, <3>4
    <2> QED BY <1>1, <1>5, <2>1, <2>2, <2>3
  <1> QED BY <1>2, <1>3, <1>4, <1>5

\* The step at each place.
LEMMA Entries ==
  /\ Entry(1) = <<"delete", "log">>
  /\ Entry(2) = <<"ship", "status">>
  /\ Entry(3) = <<"ship", "log">>
  /\ Entry(4) = <<"pack", "status">>
  /\ Entry(5) = <<"pack", "log">>
  /\ Entry(6) = <<"write", "status">>
  /\ Entry(7) = <<"delete", "core">>
  /\ Entry(8) = <<"upload", "tree">>
  /\ Entry(9) = <<"pack", "yaml">>
  /\ Entry(10) = <<"pack", "json">>
  /\ Entry(11) = <<"write", "yaml">>
  /\ Entry(12) = <<"write", "json">>
  /\ Entry(13) = <<"check", "tree">>
  /\ Entry(14) = <<"compare", "tree">>
  /\ Entry(15) = <<"delete", "down">>
  /\ Entry(16) = <<"filter", "tree">>
  /\ Entry(17) = <<"unpack", "tree">>
  /\ Entry(18) = <<"fetch", "tree">>
  /\ Entry(19) = <<"find", "tree">>
  /\ Entry(20) = <<"open", "log">>
  /\ Entry(21) = <<"build", "tree">>
  /\ Entry(22) = <<"discover", "tree">>
  /\ Entry(23) = <<"open", "log">>
  /\ Entry(24) = <<"delete", "core">>
  /\ Entry(25) = <<"delete", "down">>
  /\ Entry(26) = <<"delete", "log">>
  /\ Entry(27) = <<"restart", "tree">>
  <1>1. /\ Entry(1) = <<"delete", "log">>
        /\ Entry(2) = <<"ship", "status">>
        /\ Entry(3) = <<"ship", "log">>
        /\ Entry(4) = <<"pack", "status">>
        /\ Entry(5) = <<"pack", "log">>
        /\ Entry(6) = <<"write", "status">>
    <2>1. Line(1) = RestoreLine /\ Index(1) = 20 /\ Line(2) = RestoreLine /\ Index(2) = 19 /\ Line(3) = RestoreLine /\ Index(3) = 18 /\ Line(4) = RestoreLine /\ Index(4) = 17 /\ Line(5) = RestoreLine /\ Index(5) = 16 /\ Line(6) = RestoreLine /\ Index(6) = 15
      BY DEF Line, Index
    <2>2. \A i \in 1..6 : RestoreLine[14 + i] = LogSteps[i]
      BY RestoreSteps
    <2>3. RestoreLine[20] = LogSteps[6] /\ RestoreLine[19] = LogSteps[5] /\ RestoreLine[18] = LogSteps[4] /\ RestoreLine[17] = LogSteps[3] /\ RestoreLine[16] = LogSteps[2] /\ RestoreLine[15] = LogSteps[1]
      BY <2>2
    <2> QED BY <2>1, <2>3, LogStepsAre DEF Entry
  <1>2. /\ Entry(7) = <<"delete", "core">>
        /\ Entry(8) = <<"upload", "tree">>
        /\ Entry(9) = <<"pack", "yaml">>
        /\ Entry(10) = <<"pack", "json">>
        /\ Entry(11) = <<"write", "yaml">>
        /\ Entry(12) = <<"write", "json">>
        /\ Entry(13) = <<"check", "tree">>
    <2>1. Line(7) = RestoreLine /\ Index(7) = 14 /\ Line(8) = RestoreLine /\ Index(8) = 13 /\ Line(9) = RestoreLine /\ Index(9) = 12 /\ Line(10) = RestoreLine /\ Index(10) = 11 /\ Line(11) = RestoreLine /\ Index(11) = 10 /\ Line(12) = RestoreLine /\ Index(12) = 9 /\ Line(13) = RestoreLine /\ Index(13) = 8
      BY DEF Line, Index
    <2>2. \A i \in 1..7 : RestoreLine[7 + i] = StoreSteps[i]
      BY RestoreSteps
    <2>3. RestoreLine[14] = StoreSteps[7] /\ RestoreLine[13] = StoreSteps[6] /\ RestoreLine[12] = StoreSteps[5] /\ RestoreLine[11] = StoreSteps[4] /\ RestoreLine[10] = StoreSteps[3] /\ RestoreLine[9] = StoreSteps[2] /\ RestoreLine[8] = StoreSteps[1]
      BY <2>2
    <2> QED BY <2>1, <2>3, StoreStepsAre DEF Entry
  <1>3. /\ Entry(14) = <<"compare", "tree">>
        /\ Entry(15) = <<"delete", "down">>
        /\ Entry(16) = <<"filter", "tree">>
        /\ Entry(17) = <<"unpack", "tree">>
        /\ Entry(18) = <<"fetch", "tree">>
        /\ Entry(19) = <<"find", "tree">>
        /\ Entry(20) = <<"open", "log">>
    <2>1. /\ Line(14) = RestoreLine /\ Index(14) = 7
          /\ Line(15) = RestoreLine /\ Index(15) = 6
          /\ Line(16) = RestoreLine /\ Index(16) = 5
          /\ Line(17) = RestoreLine /\ Index(17) = 4
          /\ Line(18) = RestoreLine /\ Index(18) = 3
          /\ Line(19) = RestoreLine /\ Index(19) = 2
          /\ Line(20) = RestoreLine /\ Index(20) = 1
      BY DEF Line, Index
    <2>2. /\ RestoreLine[7] = <<"compare", "tree">>
          /\ RestoreLine[6] = <<"delete", "down">>
          /\ RestoreLine[5] = <<"filter", "tree">>
          /\ RestoreLine[4] = <<"unpack", "tree">>
          /\ RestoreLine[3] = <<"fetch", "tree">>
          /\ RestoreLine[2] = <<"find", "tree">>
          /\ RestoreLine[1] = <<"open", "log">>
      BY RestoreSteps DEF RestartStep
    <2> QED BY <2>1, <2>2 DEF Entry
  <1>4. /\ Entry(21) = <<"build", "tree">>
        /\ Entry(22) = <<"discover", "tree">>
        /\ Entry(23) = <<"open", "log">>
    <2>1. /\ Line(21) = BackupLine /\ Index(21) = 3
          /\ Line(22) = BackupLine /\ Index(22) = 2
          /\ Line(23) = BackupLine /\ Index(23) = 1
      BY DEF Line, Index
    <2>2. /\ BackupLine[3] = <<"build", "tree">>
          /\ BackupLine[2] = <<"discover", "tree">>
          /\ BackupLine[1] = <<"open", "log">>
      BY BackupSteps DEF RestartStep
    <2> QED BY <2>1, <2>2 DEF Entry
  <1>5. /\ Entry(24) = <<"delete", "core">>
        /\ Entry(25) = <<"delete", "down">>
        /\ Entry(26) = <<"delete", "log">>
        /\ Entry(27) = <<"restart", "tree">>
    <2>1. /\ Line(24) = ClosingLine /\ Index(24) = 1
          /\ Line(25) = PanicLine /\ Index(25) = 1
          /\ Line(26) = PanicLine /\ Index(26) = 2
          /\ Line(27) = PanicLine /\ Index(27) = 3
      BY DEF Line, Index
    <2>2. /\ ClosingLine[1] = <<"delete", "core">>
          /\ PanicLine[1] = <<"delete", "down">>
          /\ PanicLine[2] = <<"delete", "log">>
          /\ PanicLine[3] = <<"restart", "tree">>
      BY ShortLines DEF RestartStep
    <2> QED BY <2>1, <2>2 DEF Entry
  <1> QED BY <1>1, <1>2, <1>3, <1>4, <1>5, Zenon

\* The places of each step.  Only the deletions and the opening of the log
\* have more than one.
LEMMA Where ==
  ASSUME NEW p \in Places \ {0}, NEW step, NEW arg, Entry(p) = <<step, arg>>
  PROVE  /\ step = "delete" /\ arg = "log" => p \in {1, 26}
         /\ step = "delete" /\ arg = "core" => p \in {7, 24}
         /\ step = "delete" /\ arg = "down" => p \in {15, 25}
         /\ step = "ship" /\ arg = "status" => p = 2
         /\ step = "ship" /\ arg = "log" => p = 3
         /\ step = "pack" /\ arg = "status" => p = 4
         /\ step = "pack" /\ arg = "log" => p = 5
         /\ step = "pack" /\ arg = "yaml" => p = 9
         /\ step = "pack" /\ arg = "json" => p = 10
         /\ step = "write" /\ arg = "status" => p = 6
         /\ step = "write" /\ arg = "yaml" => p = 11
         /\ step = "write" /\ arg = "json" => p = 12
         /\ step = "upload" /\ arg = "tree" => p = 8
         /\ step = "check" /\ arg = "tree" => p = 13
         /\ step = "compare" /\ arg = "tree" => p = 14
         /\ step = "filter" /\ arg = "tree" => p = 16
         /\ step = "unpack" /\ arg = "tree" => p = 17
         /\ step = "fetch" /\ arg = "tree" => p = 18
         /\ step = "find" /\ arg = "tree" => p = 19
         /\ step = "open" /\ arg = "log" => p \in {20, 23}
         /\ step = "build" /\ arg = "tree" => p = 21
         /\ step = "discover" /\ arg = "tree" => p = 22
         /\ step = "restart" /\ arg = "tree" => p = 27
         /\ step = "write" => arg \in {"json", "yaml", "status"}
         /\ step = "ship" => arg \in {"log", "status"}
  <1>1. p \in 1..27
    BY DEF Places
  <1>2. Entry(p)[1] = step /\ Entry(p)[2] = arg
    OBVIOUS
  <1>3. /\ Entry(1)[1] = "delete" /\ Entry(1)[2] = "log"
        /\ Entry(2)[1] = "ship" /\ Entry(2)[2] = "status"
        /\ Entry(3)[1] = "ship" /\ Entry(3)[2] = "log"
        /\ Entry(4)[1] = "pack" /\ Entry(4)[2] = "status"
        /\ Entry(5)[1] = "pack" /\ Entry(5)[2] = "log"
        /\ Entry(6)[1] = "write" /\ Entry(6)[2] = "status"
        /\ Entry(7)[1] = "delete" /\ Entry(7)[2] = "core"
        /\ Entry(8)[1] = "upload" /\ Entry(8)[2] = "tree"
        /\ Entry(9)[1] = "pack" /\ Entry(9)[2] = "yaml"
        /\ Entry(10)[1] = "pack" /\ Entry(10)[2] = "json"
        /\ Entry(11)[1] = "write" /\ Entry(11)[2] = "yaml"
        /\ Entry(12)[1] = "write" /\ Entry(12)[2] = "json"
        /\ Entry(13)[1] = "check" /\ Entry(13)[2] = "tree"
    BY Entries
  <1>4. /\ Entry(14)[1] = "compare" /\ Entry(14)[2] = "tree"
        /\ Entry(15)[1] = "delete" /\ Entry(15)[2] = "down"
        /\ Entry(16)[1] = "filter" /\ Entry(16)[2] = "tree"
        /\ Entry(17)[1] = "unpack" /\ Entry(17)[2] = "tree"
        /\ Entry(18)[1] = "fetch" /\ Entry(18)[2] = "tree"
        /\ Entry(19)[1] = "find" /\ Entry(19)[2] = "tree"
        /\ Entry(20)[1] = "open" /\ Entry(20)[2] = "log"
        /\ Entry(21)[1] = "build" /\ Entry(21)[2] = "tree"
        /\ Entry(22)[1] = "discover" /\ Entry(22)[2] = "tree"
        /\ Entry(23)[1] = "open" /\ Entry(23)[2] = "log"
        /\ Entry(24)[1] = "delete" /\ Entry(24)[2] = "core"
        /\ Entry(25)[1] = "delete" /\ Entry(25)[2] = "down"
        /\ Entry(26)[1] = "delete" /\ Entry(26)[2] = "log"
        /\ Entry(27)[1] = "restart" /\ Entry(27)[2] = "tree"
    BY Entries
  <1> QED BY <1>1, <1>2, <1>3, <1>4

\* Where missions begin, return to and end.
LEMMA Marks ==
  /\ Rest(0) = <<>> /\ Rest(1) = <<<<"delete", "log">>>> /\ Rest(6) = LogSteps
  /\ Rest(20) = RestoreLine /\ Rest(23) = BackupLine
  /\ Rest(24) = ClosingLine /\ Rest(25) = PanicLine
  /\ Rest(26) = <<<<"delete", "log">>, RestartStep>> /\ Rest(27) = <<RestartStep>>
  <1>1. Rest(20) = RestoreLine /\ Rest(23) = BackupLine
        /\ Rest(24) = ClosingLine /\ Rest(25) = PanicLine
    <2>1. /\ Line(20) = RestoreLine /\ Index(20) = 1 /\ Line(23) = BackupLine /\ Index(23) = 1
          /\ Line(24) = ClosingLine /\ Index(24) = 1 /\ Line(25) = PanicLine /\ Index(25) = 1
      BY DEF Line, Index
    <2>2. /\ RestoreLine \in Seq(Parts) /\ BackupLine \in Seq(Parts)
          /\ ClosingLine \in Seq(Parts) /\ PanicLine \in Seq(Parts)
      BY Lines, Zenon
    <2> QED BY <2>1, <2>2, SubSeqFull, Zenon DEF Rest
  <1>2. Rest(1) = <<<<"delete", "log">>>>
    <2>1. Tail(Rest(24)) = Rest(After(24)) /\ After(24) = 1
      BY Tails DEF Places, After
    <2>2. Tail(ClosingLine) = <<<<"delete", "log">>>>
      BY DEF ClosingLine
    <2> QED BY <1>1, <2>1, <2>2, Zenon
  <1>3. Rest(26) = <<<<"delete", "log">>, RestartStep>> /\ Rest(27) = <<RestartStep>>
    <2>1. /\ Tail(Rest(25)) = Rest(After(25)) /\ After(25) = 26
          /\ Tail(Rest(26)) = Rest(After(26)) /\ After(26) = 27
      BY Tails DEF Places, After
    <2>2. /\ Tail(PanicLine) = <<<<"delete", "log">>, RestartStep>>
          /\ Tail(<<<<"delete", "log">>, RestartStep>>) = <<RestartStep>>
      BY DEF PanicLine
    <2> QED BY <1>1, <2>1, <2>2
  <1>4. Rest(0) = <<>>
    <2>1. Line(0) = RestoreLine /\ Index(0) = 21 /\ Len(RestoreLine) = 20
      BY Lines DEF Line, Index
    <2>2. Rest(0) = SubSeq(RestoreLine, 21, 20)
      BY <2>1, Zenon DEF Rest
    <2> QED BY <2>2, SubSeqEmpty
  <1>5. Rest(6) = LogSteps
    <2>1. Line(6) = RestoreLine /\ Index(6) = 15 /\ Len(RestoreLine) = 20
      BY Lines DEF Line, Index
    <2>2. Rest(6) = SubSeq(RestoreLine, 15, 20)
      BY <2>1, Zenon DEF Rest
    <2>3. ASSUME NEW i \in 15..20 PROVE RestoreLine[i] \in Parts
      <3>1. RestoreLine \in Seq(Parts) /\ i \in 1..Len(RestoreLine)
        BY <2>1, Lines
      <3> QED BY <3>1, ElementOfSeq
    <2>4. /\ Rest(6) \in Seq(Parts) /\ Len(Rest(6)) = 6
          /\ \A i \in 1..6 : Rest(6)[i] = RestoreLine[15 + i - 1]
      <3>1. LET s == SubSeq(RestoreLine, 15, 20) IN
            s \in Seq(Parts) /\ Len(s) = 6 /\ \A i \in 1..6 : s[i] = RestoreLine[15 + i - 1]
        BY <2>3, SubSeqProperties
      <3> QED BY <2>2, <3>1, Zenon
    <2>5. ASSUME NEW i \in 1..6 PROVE Rest(6)[i] = LogSteps[i]
      <3>1. RestoreLine[14 + i] = LogSteps[i]
        BY RestoreSteps
      <3>2. 15 + i - 1 = 14 + i
        OBVIOUS
      <3> QED BY <2>4, <3>1, <3>2
    <2>6. LogSteps \in Seq(Parts) /\ Len(LogSteps) = 6
      BY LogStepsAre
    <2> QED BY <2>4, <2>5, <2>6, SeqEqual
  <1> QED BY <1>1, <1>2, <1>3, <1>4, <1>5

\* A step that is on is at a place, and to proceed is to go to the next.
LEMMA Going ==
  ASSUME NEW p \in Places, agenda = Rest(p), NEW step, NEW arg, At(step, arg)
  PROVE  /\ p # 0 /\ Entry(p) = <<step, arg>>
         /\ After(p) \in Places /\ (Proceed => agenda' = Rest(After(p)))
  <1>1. p # 0
    BY Marks DEF At
  <1>2. Head(Rest(p)) = Entry(p)
    BY <1>1, Heads DEF Entry
  <1>3. Entry(p) = <<step, arg>>
    BY <1>2 DEF At
  <1>4. After(p) \in Places /\ Tail(Rest(p)) = Rest(After(p))
    BY <1>1, Tails
  <1> QED BY <1>1, <1>3, <1>4 DEF Proceed

\* An entry more at the end.
LEMMA Appended ==
  ASSUME NEW S, NEW a \in S, NEW b \in S, NEW c \in S
  PROVE  Append(<<a>>, b) = <<a, b>> /\ Append(<<a, b>>, c) = <<a, b, c>>
  <1>1. ASSUME NEW s \in Seq(S), NEW t \in Seq(S), NEW e \in S,
               NEW n \in Nat, Len(s) = n, Len(t) = n + 1, t[n + 1] = e,
               \A i \in 1..n : t[i] = s[i]
        PROVE  Append(s, e) = t
    <2>1. /\ Append(s, e) \in Seq(S) /\ Len(Append(s, e)) = Len(s) + 1
          /\ \A i \in 1..Len(s) : Append(s, e)[i] = s[i]
          /\ Append(s, e)[Len(s) + 1] = e
      BY AppendProperties
    <2>2. ASSUME NEW i \in 1..Len(t) PROVE Append(s, e)[i] = t[i]
      <3>1. i \in 1..Len(s) \/ i = Len(s) + 1
        BY <1>1
      <3> QED BY <1>1, <2>1, <3>1
    <2> QED BY <1>1, <2>1, <2>2, SeqEqual
  <1>2. /\ <<a>> \in Seq(S) /\ <<a, b>> \in Seq(S) /\ <<a, b, c>> \in Seq(S)
        /\ Len(<<a>>) = 1 /\ Len(<<a, b>>) = 2 /\ Len(<<a, b, c>>) = 3
    OBVIOUS
  <1>3. Append(<<a>>, b) = <<a, b>>
    <2>1. /\ 1 \in Nat /\ 2 = 1 + 1 /\ <<a, b>>[2] = b
          /\ \A i \in 1..1 : <<a, b>>[i] = <<a>>[i]
      OBVIOUS
    <2>2. Len(<<a, b>>) = 1 + 1 /\ <<a, b>>[1 + 1] = b
      BY <1>2, <2>1
    <2> QED BY <1>1, <1>2, <2>1, <2>2, Zenon
  <1>4. Append(<<a, b>>, c) = <<a, b, c>>
    <2>1. /\ 2 \in Nat /\ 3 = 2 + 1 /\ <<a, b, c>>[3] = c
          /\ \A i \in 1..2 : <<a, b, c>>[i] = <<a, b>>[i]
      OBVIOUS
    <2>2. Len(<<a, b, c>>) = 2 + 1 /\ <<a, b, c>>[2 + 1] = c
      BY <1>2, <2>1
    <2> QED BY <1>1, <1>2, <2>1, <2>2, Zenon
  <1> QED BY <1>3, <1>4

\* Where returning leads, and dying.
LEMMA Returns ==
  /\ Return(<<>>) => agenda' = Rest(0)
  /\ Return(<<"log">>) => agenda' = Rest(1)
  /\ Return(<<"core", "log">>) => agenda' = Rest(24)
  /\ Die(<<"log">>) => agenda' = Rest(26)
  /\ Die(<<"down", "log">>) => agenda' = Rest(25)
  <1>1. Return(<<>>) => agenda' = <<>>
    BY DEF Return
  <1>2. Return(<<"log">>) => agenda' = <<<<"delete", "log">>>>
    BY DEF Return
  <1>3. Return(<<"core", "log">>) => agenda' = ClosingLine
    BY DEF Return, ClosingLine
  <1>4. Die(<<"log">>) => agenda' = <<<<"delete", "log">>, RestartStep>>
    <2>1. [i \in DOMAIN <<"log">> |-> <<"delete", <<"log">>[i]>>] = <<<<"delete", "log">>>>
      OBVIOUS
    <2>2. <<"delete", "log">> \in Parts /\ RestartStep \in Parts
      BY DEF Parts
    <2>3. Append(<<<<"delete", "log">>>>, RestartStep) = <<<<"delete", "log">>, RestartStep>>
      BY <2>2, Appended, Zenon
    <2> QED BY <2>1, <2>3 DEF Die
  <1>5. Die(<<"down", "log">>) => agenda' = PanicLine
    <2>1. [i \in DOMAIN <<"down", "log">> |-> <<"delete", <<"down", "log">>[i]>>]
            = <<<<"delete", "down">>, <<"delete", "log">>>>
      OBVIOUS
    <2>2. /\ <<"delete", "down">> \in Parts /\ <<"delete", "log">> \in Parts
          /\ RestartStep \in Parts
      BY DEF Parts
    <2>3. Append(<<<<"delete", "down">>, <<"delete", "log">>>>, RestartStep)
            = <<<<"delete", "down">>, <<"delete", "log">>, RestartStep>>
      BY <2>2, Appended, Zenon
    <2> QED BY <2>1, <2>3 DEF Die, PanicLine
  <1> QED BY <1>1, <1>2, <1>3, <1>4, <1>5, Marks
-----------------------------------------------------------------------------
(* What holds at each place.                                               *)

\* What befell a mission that may leave directories behind.
Befallen(m) == \E what \in {"disk", "kill", "hollow"} : <<m, what>> \in troubled

\* The directory of each kind that a mission still deletes.
Due(kind) ==
  IF kind = "log" THEN (1..19) \cup {21, 22, 24, 25, 26}
  ELSE IF kind = "core" THEN (7..11) \cup {24}
  ELSE {15, 16, 17, 25}
DirKinds == {"log", "core", "down"}

\* What any content is like: only files of its own objects are cut short.
Sane(content) ==
  /\ DOMAIN content = {"of", "whole", "torn", "by"}
  /\ content.torn \subseteq content.of \X Halves

\* What StoredWhole says of one file of a mission that stores S.
Kept(content, file, S) ==
  /\ content.of = IF file \in Archived THEN S ELSE {}
  /\ content.whole \/ file = "log"
  /\ \/ content.whole /\ content.torn = {}
     \/ <<content.by, "disk">> \in troubled

\* A mission has a number, and directories of the store are what they are.
Typed(p) ==
  /\ call \in 0..MaxMissions /\ (p # 0 => call # 0)
  /\ slot \in Slots
  /\ DOMAIN store = Slots /\ DOMAIN meant = Slots
  /\ \A s \in Slots : \A file \in DOMAIN store[s] : Sane(store[s][file])

\* The log of this mission: lines of it may be missing after trouble.
LogKept ==
  /\ "log" \in DOMAIN local
  /\ \/ local["log"] = Whole({})
     \/ local["log"] = Broken(Whole({})) /\ <<call, "disk">> \in troubled

\* A file that is to be packed and uploaded is what is meant.
ToStore(file) ==
  file \in DOMAIN local => Sane(local[file]) /\ Kept(local[file], file, meant[slot])

\* What was downloaded is what is meant, but for trouble with either disk.
Downloaded ==
  /\ "json" \in DOMAIN local /\ "json" \in DOMAIN store[slot]
  /\ Sane(local["json"]) /\ local["json"].of = meant[slot]
  /\ \/ local["json"].whole /\ local["json"].torn = {}
     \/ <<call, "disk">> \in troubled
     \/ <<store[slot]["json"].by, "disk">> \in troubled

\* The files at each place.
Written(p) ==
  /\ p \in 8..12 => meant[slot] = Objects(tree)
  /\ p \in 8..11 => ToStore("json")
  /\ p \in 8..10 => ToStore("yaml")
  /\ p \in (3..19) \cup {21, 22} => LogKept
  /\ p \in 2..5 => "status" \in DOMAIN local /\ local["status"] = Whole({})
  /\ p = 17 => Downloaded

\* What RoundTrip says of a restore.
Worked ==
  /\ loaded \subseteq meant[slot]
  /\ hollow = {} \/ \E o \in loaded : hollow = {o}
  /\ \/ loaded = meant[slot] /\ hollow = {}
     \/ <<call, "disk">> \in troubled
     \/ <<store[slot]["json"].by, "disk">> \in troubled

\* A restore reads only between its download and its comparison, or was killed
\* there.
Reading(p) == pc = "filter" => p \in {14, 15, 16, 27} /\ Worked

\* A directory is of this mission, and it will be deleted, or of a mission
\* that had trouble.
Swept(p) ==
  \A d \in dirs :
    /\ d[1] \in Nat /\ d[1] <= call
    /\ ~Befallen(d[1]) => \E kind \in DirKinds : d = Dir(kind) /\ p \in Due(kind)

\* The assertion of a place, and the inductive invariant.
Here(p) ==
  agenda = Rest(p) /\ Typed(p) /\ StoredWhole /\ Written(p) /\ Reading(p) /\ Swept(p)
FilesInv == \E p \in Places : Here(p)

\* Files that are whole, and those that are not.
LEMMA WholeFacts ==
  ASSUME NEW S
  PROVE  /\ Sane(Whole(S)) /\ Whole(S).of = S /\ Whole(S).whole = TRUE
         /\ Whole(S).torn = {} /\ Whole(S).by = call
  BY DEF Sane, Whole

\* Breaking a file does not change what it is of.
LEMMA BrokenFacts ==
  ASSUME NEW content, Sane(content)
  PROVE  /\ Sane(Broken(content)) /\ Broken(content).of = content.of
         /\ Broken(content).by = content.by
  BY DEF Sane, Broken

\* A few elements of a set are elements of it.
LEMMA FewFacts ==
  ASSUME NEW S, NEW few \in Few(S)
  PROVE  few \subseteq S
  <1>1. CASE \E f \in [1..MaxLost -> S] : few = Range(f)
    BY <1>1 DEF Range
  <1>2. CASE few = {}
    BY <1>2
  <1> QED BY <1>1, <1>2 DEF Few

\* What a disturbance adds.
LEMMA Disturbed ==
  ASSUME NEW kind, Disturb(kind)
  PROVE  /\ troubled \subseteq troubled'
         /\ kind \in {"disk", "kill"} => <<call, kind>> \in troubled'
  BY DEF Disturb

\* Trouble is not forgotten, and so what excuses a file, the log or a restore
\* goes on excusing it.
LEMMA KeptStays ==
  ASSUME NEW content, NEW file, NEW S, Kept(content, file, S), troubled \subseteq troubled'
  PROVE  Kept(content, file, S)'
  BY DEF Kept

\* The log stays what it is while nobody writes over it.
LEMMA LogStays ==
  ASSUME LogKept, call' = call, troubled \subseteq troubled',
         "log" \in DOMAIN local', local'["log"] = local["log"]
  PROVE  LogKept'
  BY DEF LogKept, Whole

\* And the other files.
LEMMA ToStoreStays ==
  ASSUME NEW file, ToStore(file), UNCHANGED <<slot, meant>>, troubled \subseteq troubled',
         file \in DOMAIN local' => file \in DOMAIN local /\ local'[file] = local[file]
  PROVE  ToStore(file)'
  <1> SUFFICES ASSUME file \in DOMAIN local'
               PROVE  Sane(local'[file]) /\ Kept(local[file], file, meant[slot])'
    BY DEF ToStore, Kept
  <1> QED BY KeptStays DEF ToStore

\* And the restore.
LEMMA WorkedStays ==
  ASSUME Worked, UNCHANGED <<loaded, hollow, meant, slot, call, store>>,
         troubled \subseteq troubled'
  PROVE  Worked'
  BY DEF Worked

\* At first no mission is under way.
LEMMA FilesInvInit == FilesInit => FilesInv
  <1> SUFFICES ASSUME FilesInit PROVE Here(0)
    BY DEF FilesInv, Places
  <1>1. agenda = Rest(0)
    BY Marks DEF FilesInit
  <1>2. ASSUME NEW s \in Slots, NEW file \in DOMAIN store[s]
        PROVE  Sane(store[s][file]) /\ Kept(store[s][file], file, meant[s])
    <2>1. PICK S \in Snapshots \cup {{}} :
            /\ meant = [u \in Slots |-> IF u[1] = "backup" THEN S ELSE {}]
            /\ store = [u \in Slots |-> IF meant[u] = {} THEN Nothing
                          ELSE [f \in Archived \cup {"log", "status"} |->
                                  Whole(IF f \in Archived THEN S ELSE {})]]
      BY DEF FilesInit
    <2>2. meant[s] # {}
      <3>1. meant[s] = {} => DOMAIN store[s] = {}
        BY <2>1 DEF Nothing
      <3> QED BY <1>2, <3>1
    <2>3. /\ meant[s] = S
          /\ store[s] = [f \in Archived \cup {"log", "status"} |->
                           Whole(IF f \in Archived THEN S ELSE {})]
      BY <2>1, <2>2
    <2>4. PICK T : T = (IF file \in Archived THEN meant[s] ELSE {})
                   /\ store[s][file] = Whole(T)
      BY <1>2, <2>3
    <2>5. /\ Sane(Whole(T)) /\ Whole(T).of = T /\ Whole(T).whole = TRUE
          /\ Whole(T).torn = {}
      BY WholeFacts
    <2> QED BY <2>4, <2>5 DEF Kept
  <1>3. StoredWhole
    BY <1>2 DEF StoredWhole, Kept
  <1>4. Typed(0)
    <2>1. /\ call = 0 /\ slot \in Slots
          /\ DOMAIN store = Slots /\ DOMAIN meant = Slots
      BY DEF FilesInit, Slots
    <2> QED BY <1>2, <2>1, MissionsAssumption DEF Typed
  <1>5. Written(0) /\ Reading(0) /\ Swept(0)
    BY DEF FilesInit, Init, Written, Reading, Swept
  <1> QED BY <1>1, <1>3, <1>4, <1>5 DEF Here

\* What most steps leave as it is.
LEMMA StoredStays ==
  ASSUME StoredWhole, UNCHANGED <<store, meant>>, troubled \subseteq troubled'
  PROVE  StoredWhole'
  BY DEF StoredWhole

\* A mission in trouble may leave anything.
LEMMA SweptInTrouble ==
  ASSUME NEW p \in Places, NEW q \in Places, Swept(p), NEW kind,
         call' = call, call \in 0..MaxMissions, troubled \subseteq troubled',
         NEW what \in {"disk", "kill", "hollow"}, <<call, what>> \in troubled',
         dirs' \subseteq dirs \cup {Dir(kind)}
  PROVE  Swept(q)'
  <1>1. Befallen(call)' /\ \A m : Befallen(m) => Befallen(m)'
    BY DEF Befallen
  <1> SUFFICES ASSUME NEW d \in dirs'
               PROVE  /\ d[1] \in Nat /\ d[1] <= call'
                      /\ Befallen(d[1])' \/ \E k \in DirKinds : d = Dir(k)' /\ q \in Due(k)
    BY DEF Swept, Due, Befallen
  <1>2. CASE d \in dirs
    BY <1>1, <1>2 DEF Swept, Dir
  <1>3. CASE d = Dir(kind)
    BY <1>1, <1>3, MissionsAssumption DEF Dir
  <1> QED BY <1>2, <1>3

\* Otherwise what is due stays so.
LEMMA SweptStays ==
  ASSUME NEW p \in Places, NEW q \in Places, Swept(p), call' = call,
         troubled \subseteq troubled', dirs' \subseteq dirs,
         \A kind \in DirKinds : p \in Due(kind) => q \in Due(kind) \/ Dir(kind) \notin dirs'
  PROVE  Swept(q)'
  <1>1. \A m : Befallen(m) => Befallen(m)'
    BY DEF Befallen
  <1> SUFFICES ASSUME NEW d \in dirs'
               PROVE  /\ d[1] \in Nat /\ d[1] <= call'
                      /\ Befallen(d[1])' \/ \E k \in DirKinds : d = Dir(k)' /\ q \in Due(k)
    BY DEF Swept, Due, Befallen
  <1> QED BY <1>1 DEF Swept, Dir

\* A new directory will be deleted.
LEMMA SweptAdd ==
  ASSUME NEW p \in Places, NEW q \in Places, Swept(p), NEW new \in DirKinds, q \in Due(new),
         call' = call, call \in 0..MaxMissions, troubled \subseteq troubled',
         dirs' = dirs \cup {Dir(new)},
         \A kind \in DirKinds : p \in Due(kind) => q \in Due(kind)
  PROVE  Swept(q)'
  <1>1. \A m : Befallen(m) => Befallen(m)'
    BY DEF Befallen
  <1> SUFFICES ASSUME NEW d \in dirs'
               PROVE  /\ d[1] \in Nat /\ d[1] <= call'
                      /\ Befallen(d[1])' \/ \E k \in DirKinds : d = Dir(k)' /\ q \in Due(k)
    BY DEF Swept, Due, Befallen
  <1>2. CASE d \in dirs
    BY <1>1, <1>2 DEF Swept, Dir
  <1>3. CASE d = Dir(new)
    BY <1>3, MissionsAssumption DEF Dir
  <1> QED BY <1>2, <1>3
-----------------------------------------------------------------------------
(* The steps.                                                              *)

\* BeginMission puts a whole line on an empty agenda.
LEMMA BeginMissionStep ==
  ASSUME NEW p \in Places, Here(p), NEW kind \in {"backup", "restore"}, NEW name \in Names,
         BeginMission(kind, name)
  PROVE  FilesInv'
  <1> USE DEF BeginMission
  <1>1. p = 0
    BY Going, Heads DEF Here
  <1> DEFINE q == IF kind = "backup" THEN 23 ELSE 20
  <1>2. q \in Places /\ agenda' = Rest(q)
    BY Marks DEF Places, BackupLine, RestoreLine
  <1>3. Typed(q)'
    BY MissionsAssumption DEF Here, Typed, Slots
  <1>4. StoredWhole'
    BY StoredStays DEF Here
  <1>5. Written(q)'
    BY DEF Written
  <1>6. Reading(q)'
    BY <1>1 DEF Here, Reading, vars
  <1>7. Swept(q)'
    <2>1. call \in Nat /\ call' = call + 1 /\ UNCHANGED <<dirs, troubled>>
      BY MissionsAssumption DEF Here, Typed
    <2>2. ASSUME NEW d \in dirs PROVE d[1] \in Nat /\ d[1] <= call /\ Befallen(d[1])
      BY <1>1 DEF Here, Swept, Due
    <2>3. \A m : Befallen(m) => Befallen(m)'
      BY <2>1 DEF Befallen
    <2> QED BY <2>1, <2>2, <2>3 DEF Swept
  <1> QED BY <1>2, <1>3, <1>4, <1>5, <1>6, <1>7 DEF Here, FilesInv

\* OpenLog: the directory of the log is deleted at the end of either line; or
\* the disk is at fault.
LEMMA OpenLogStep ==
  ASSUME NEW p \in Places, Here(p), OpenLog
  PROVE  FilesInv'
  <1>1. p \in {20, 23} /\ After(p) \in {19, 22} /\ After(p) \in Places
    BY Going, Where DEF Here, OpenLog, After
  <1>2. UNCHANGED <<call, slot, store, meant, pc>> /\ call \in 0..MaxMissions
    BY DEF OpenLog, vars, Here, Typed
  <1>3. CASE MakeDir("log") /\ Proceed /\ Fine /\ local' = With(Nothing, "log", Whole({}))
    <2> DEFINE q == After(p)
    <2>1. agenda' = Rest(q) /\ troubled' = troubled
      BY <1>3, Going DEF Here, OpenLog, Fine
    <2>2. Typed(q)' /\ StoredWhole' /\ Reading(q)'
      BY <1>1, <1>2, <2>1, StoredStays DEF Here, Typed, Reading
    <2>3. Written(q)'
      <3>1. "log" \in DOMAIN local' /\ local'["log"] = Whole({})
        <4>1. /\ "log" \in DOMAIN With(Nothing, "log", Whole({}))
              /\ With(Nothing, "log", Whole({}))["log"] = Whole({})
          BY DEF With
        <4> QED BY <1>3, <4>1
      <3>2. Whole({})' = Whole({})
        BY <1>2 DEF Whole
      <3> QED BY <1>1, <3>1, <3>2 DEF Written, LogKept
    <2>4. Swept(q)'
      <3>1. \A kind \in DirKinds : p \in Due(kind) => q \in Due(kind)
        BY <1>1 DEF DirKinds, Due
      <3>2. q \in Due("log") /\ "log" \in DirKinds
        BY <1>1 DEF DirKinds, Due
      <3> QED BY <1>1, <1>2, <1>3, <2>1, <3>1, <3>2, SweptAdd DEF Here, MakeDir
    <2> QED BY <1>1, <2>1, <2>2, <2>3, <2>4 DEF Here, FilesInv
  <1>4. CASE MayMakeDir("log") /\ Disturb("disk") /\ Return(<<>>)
    <2>1. agenda' = Rest(0) /\ 0 \in Places
      BY <1>4, Returns DEF Places
    <2>2. troubled \subseteq troubled' /\ <<call, "disk">> \in troubled'
      BY <1>4, Disturbed
    <2>3. Typed(0)' /\ StoredWhole' /\ Reading(0)'
      BY <1>1, <1>2, <2>2, StoredStays DEF Here, Typed, Reading
    <2>4. Written(0)'
      BY DEF Written
    <2>5. Swept(0)'
      <3>1. dirs' \subseteq dirs \cup {Dir("log")}
        BY <1>4 DEF MayMakeDir, MakeDir
      <3> QED BY <1>2, <2>1, <2>2, <3>1, SweptInTrouble DEF Here
    <2> QED BY <2>1, <2>3, <2>4, <2>5 DEF Here, FilesInv
  <1> QED BY <1>3, <1>4, Zenon DEF OpenLog

\* CallFails: nothing but the log's directory is there by then.
LEMMA CallFailsStep ==
  ASSUME NEW p \in Places, Here(p), CallFails
  PROVE  FilesInv'
  <1>1. p \in {22, 19, 18, 14, 13} /\ 1 \in Places
    <2>1. At("discover", "tree") => p = 22
      BY Going, Where DEF Here
    <2>2. At("find", "tree") => p = 19
      BY Going, Where DEF Here
    <2>3. At("fetch", "tree") => p = 18
      BY Going, Where DEF Here
    <2>4. At("compare", "tree") => p = 14
      BY Going, Where DEF Here
    <2>5. At("check", "tree") => p = 13
      BY Going, Where DEF Here
    <2> QED BY <2>1, <2>2, <2>3, <2>4, <2>5 DEF CallFails, Places
  <1>2. agenda' = Rest(1)
    BY Returns DEF CallFails
  <1>3. /\ troubled \subseteq troubled' /\ pc' = "idle"
        /\ UNCHANGED <<call, slot, store, dirs, local, meant>>
    BY Disturbed DEF CallFails, Abandon
  <1>4. Typed(1)' /\ StoredWhole' /\ Written(1)' /\ Reading(1)'
    BY <1>1, <1>3, StoredStays DEF Here, Typed, Written, Reading
  <1>5. Swept(1)'
    <2>1. \A kind \in DirKinds : p \in Due(kind) => 1 \in Due(kind)
      BY <1>1 DEF DirKinds, Due
    <2> QED BY <1>1, <1>3, <2>1, SweptStays DEF Here
  <1> QED BY <1>1, <1>2, <1>4, <1>5 DEF Here, FilesInv

\* A step after which the mission just goes on, and that has nothing to do
\* with files.
LEMMA Onward ==
  ASSUME NEW p \in Places, Here(p), NEW q \in Places,
         <<p, q>> \in {<<22, 21>>, <<21, 21>>, <<21, 13>>, <<19, 18>>},
         UNCHANGED <<call, slot, store, dirs, local, meant, troubled>>
  PROVE  Typed(q)' /\ StoredWhole' /\ Written(q)' /\ Swept(q)'
  <1>1. LogKept'
    <2>1. LogKept
      BY DEF Here, Written
    <2> QED BY <2>1, LogStays DEF LogKept
  <1>2. Typed(q)' /\ StoredWhole' /\ Written(q)'
    BY <1>1, StoredStays DEF Here, Typed, Written
  <1>3. Swept(q)'
    <2>1. \A kind \in DirKinds : p \in Due(kind) => q \in Due(kind)
      BY DEF DirKinds, Due
    <2> QED BY <2>1, SweptStays DEF Here
  <1> QED BY <1>2, <1>3

\* Discover has nothing to do with files.
LEMMA DiscoverStep ==
  ASSUME NEW p \in Places, Here(p), Discover
  PROVE  FilesInv'
  <1>1. p = 22 /\ 21 \in Places /\ agenda' = Rest(21)
    BY Going, Where DEF Here, Discover, Places, After
  <1>2. pc' = "filtrate"
    BY DEF Discover, Backup, Begin
  <1>3. Typed(21)' /\ StoredWhole' /\ Written(21)' /\ Swept(21)'
    BY <1>1, Onward DEF Discover
  <1> QED BY <1>1, <1>2, <1>3 DEF Here, FilesInv, Reading

\* Build goes on at its place until the tree is built.
LEMMA BuildStep ==
  ASSUME NEW p \in Places, Here(p), Build
  PROVE  FilesInv'
  <1>1. p = 21 /\ 21 \in Places /\ 13 \in Places
    BY Going, Where DEF Here, Build, Places
  <1>2. PICK q \in {21, 13} : agenda' = Rest(q)
    BY <1>1, Going DEF Here, Build, After
  <1>3. pc' # "filter"
    BY DEF Build, FiltrateResource, FiltrateResourceDone, BuildVersion, BuildPrune,
           PruneVersion, BuildDone
  <1>4. Typed(q)' /\ StoredWhole' /\ Written(q)' /\ Swept(q)'
    BY <1>1, Onward DEF Build
  <1> QED BY <1>1, <1>2, <1>3, <1>4 DEF Here, FilesInv, Reading

\* Find goes on or returns.
LEMMA FindStep ==
  ASSUME NEW p \in Places, Here(p), Find
  PROVE  FilesInv'
  <1>1. p = 19 /\ 18 \in Places /\ 1 \in Places
    BY Going, Where DEF Here, Find, Places
  <1>2. pc' # "filter"
    BY <1>1 DEF Here, Find, Reading, vars
  <1>3. CASE Exists(slot)
    <2>1. agenda' = Rest(18)
      BY <1>1, <1>3, Going DEF Here, Find, GoIf, After
    <2>2. Typed(18)' /\ StoredWhole' /\ Written(18)' /\ Swept(18)'
      BY <1>1, Onward DEF Find
    <2> QED BY <1>1, <1>2, <2>1, <2>2 DEF Here, FilesInv, Reading
  <1>4. CASE ~Exists(slot)
    <2>1. agenda' = Rest(1)
      BY <1>4, Returns DEF Find, GoIf
    <2>2. Typed(1)' /\ StoredWhole' /\ Written(1)'
      BY <1>1, StoredStays DEF Here, Find, Typed, Written
    <2>3. Swept(1)'
      <3>1. \A kind \in DirKinds : p \in Due(kind) => 1 \in Due(kind)
        BY <1>1 DEF DirKinds, Due
      <3> QED BY <1>1, <3>1, SweptStays DEF Here, Find
    <2> QED BY <1>1, <1>2, <2>1, <2>2, <2>3 DEF Here, FilesInv, Reading
  <1> QED BY <1>3, <1>4

\* Fetch: what is downloaded is what is stored, but for trouble on the way.
LEMMA FetchStep ==
  ASSUME NEW p \in Places, Here(p), Fetch
  PROVE  FilesInv'
  <1>1. p = 18 /\ 17 \in Places /\ 1 \in Places
    BY Going, Where DEF Here, Fetch, Places
  <1>2. pc' # "filter"
    BY <1>1 DEF Here, Fetch, Reading, vars
  <1>3. UNCHANGED <<call, slot, store, meant>> /\ call \in 0..MaxMissions
    BY DEF Fetch, Here, Typed
  <1>4. CASE /\ "json" \notin DOMAIN store[slot] /\ GoIf(FALSE) /\ Fine
             /\ UNCHANGED <<dirs, local>>
    <2>1. agenda' = Rest(1) /\ troubled' = troubled
      BY <1>4, Returns DEF GoIf, Fine
    <2>2. Typed(1)' /\ StoredWhole' /\ Written(1)'
      BY <1>1, <1>3, <2>1, StoredStays DEF Here, Typed, Written
    <2>3. Swept(1)'
      <3>1. \A kind \in DirKinds : p \in Due(kind) => 1 \in Due(kind)
        BY <1>1 DEF DirKinds, Due
      <3> QED BY <1>1, <1>3, <1>4, <2>1, <3>1, SweptStays DEF Here
    <2> QED BY <1>1, <1>2, <2>1, <2>2, <2>3 DEF Here, FilesInv, Reading
  <1>5. CASE /\ "json" \in DOMAIN store[slot] /\ GoIf(TRUE) /\ MakeDir("down")
             /\ \/ local' = With(local, "json", store[slot]["json"]) /\ Fine
                \/ local' = With(local, "json", Broken(store[slot]["json"])) /\ Disturb("disk")
    <2>1. agenda' = Rest(17)
      BY <1>1, <1>5, Going DEF Here, Fetch, GoIf, After
    <2>2. troubled \subseteq troubled'
      BY <1>5, Disturbed DEF Fine
    <2>3. Typed(17)' /\ StoredWhole'
      BY <1>1, <1>3, <2>2, StoredStays DEF Here, Typed
    <2>4. PICK content : local' = With(local, "json", content)
                         /\ \/ content = store[slot]["json"]
                            \/ content = Broken(store[slot]["json"]) /\ Disturb("disk")
      BY <1>5
    <2>5. /\ "json" \in DOMAIN local' /\ local'["json"] = content
          /\ "log" \in DOMAIN local => "log" \in DOMAIN local' /\ local'["log"] = local["log"]
      BY <2>4 DEF With
    <2>6. LogKept'
      <3>1. LogKept
        BY <1>1 DEF Here, Written
      <3> QED BY <1>3, <2>2, <2>5, <3>1, LogStays DEF LogKept
    <2>7. Downloaded'
      <3>1. Sane(store[slot]["json"])
        BY <1>5 DEF Here, Typed
      <3>2. /\ store[slot]["json"].of = meant[slot]
            /\ \/ store[slot]["json"].whole /\ store[slot]["json"].torn = {}
               \/ <<store[slot]["json"].by, "disk">> \in troubled
        BY <1>5 DEF Here, Typed, StoredWhole, Archived
      <3>3. CASE content = store[slot]["json"]
        BY <1>3, <1>5, <2>2, <2>5, <3>1, <3>2, <3>3 DEF Downloaded
      <3>4. CASE content = Broken(store[slot]["json"]) /\ Disturb("disk")
        <4>1. Sane(content) /\ content.of = meant[slot]
          BY <3>1, <3>2, <3>4, BrokenFacts
        <4>2. <<call, "disk">> \in troubled'
          BY <3>4, Disturbed
        <4> QED BY <1>3, <1>5, <2>5, <4>1, <4>2 DEF Downloaded
      <3> QED BY <2>4, <3>3, <3>4
    <2>8. Written(17)'
      BY <2>6, <2>7 DEF Written
    <2>9. Swept(17)'
      <3>1. \A kind \in DirKinds : p \in Due(kind) => 17 \in Due(kind)
        BY <1>1 DEF DirKinds, Due
      <3>2. 17 \in Due("down") /\ "down" \in DirKinds
        BY DEF DirKinds, Due
      <3>3. dirs' = dirs \cup {Dir("down")} /\ Swept(p)
        BY <1>5 DEF Here, MakeDir
      <3> QED BY <1>1, <1>3, <2>2, <3>1, <3>2, <3>3, SweptAdd
    <2> QED BY <1>1, <1>2, <2>1, <2>3, <2>8, <2>9 DEF Here, FilesInv, Reading
  <1>6. CASE /\ "json" \in DOMAIN store[slot] /\ GoIf(FALSE) /\ Disturb("disk")
             /\ MayMakeDir("down")
             /\ UNCHANGED local
    <2>1. agenda' = Rest(1)
      BY <1>6, Returns DEF GoIf
    <2>2. troubled \subseteq troubled' /\ <<call, "disk">> \in troubled'
      BY <1>6, Disturbed
    <2>3. Typed(1)' /\ StoredWhole' /\ Written(1)'
      BY <1>1, <1>3, <2>2, StoredStays DEF Here, Typed, Written
    <2>4. Swept(1)'
      <3>1. dirs' \subseteq dirs \cup {Dir("down")}
        BY <1>6 DEF MayMakeDir, MakeDir
      <3> QED BY <1>1, <1>3, <2>2, <3>1, SweptInTrouble DEF Here
    <2> QED BY <1>1, <1>2, <2>1, <2>3, <2>4 DEF Here, FilesInv, Reading
  <1> QED BY <1>4, <1>5, <1>6 DEF Fetch

\* What comes out of an archive was in it, and is all of it if nothing there
\* is broken or cut short.
LEMMA BuiltFacts ==
  ASSUME NEW archive, Sane(archive), NEW b \in Built(archive)
  PROVE  /\ b[1] \cup b[2] \subseteq archive.of
         /\ b[2] = {} \/ \E o \in b[1] \cup b[2] : b[2] = {o}
         /\ archive.whole /\ archive.torn = {} => b = <<archive.of, {}>>
  <1>1. CASE ~archive.whole
    BY <1>1 DEF Built
  <1>2. CASE archive.whole /\ archive.torn = {}
    BY <1>2 DEF Built
  <1>3. CASE archive.whole /\ archive.torn # {}
    <2>1. b \in Halfway(archive)
      BY <1>3 DEF Built
    <2>2. PICK u \in archive.torn, missed \in Few(archive.of) :
                 b = BuiltUpTo(archive, u[1], missed)
      BY <2>1 DEF Halfway
    <2>3. u[1] \in archive.of
      BY DEF Sane
    <2>4. b[1] \subseteq archive.of /\ b[2] \in {{}, {u[1]}}
      BY <2>2 DEF BuiltUpTo
    <2> QED BY <1>3, <2>3, <2>4
  <1> QED BY <1>1, <1>2, <1>3

\* What is seen of an archive is an archive of some of its objects.
LEMMA SeenFacts ==
  ASSUME NEW archive, Sane(archive),
         NEW unread \in Few(archive.of \X (Halves \cup {"both"}))
  PROVE  Sane(Seen(archive, unread)) /\ Seen(archive, unread).of \subseteq archive.of
  <1> DEFINE seen == Seen(archive, unread)
             unseen == {o \in archive.of : <<o, "both">> \in unread}
  <1>1. /\ DOMAIN seen = {"of", "whole", "torn", "by"}
        /\ seen.of = archive.of \ unseen
        /\ seen.torn = {u \in archive.torn \cup unread : u[1] \notin unseen}
    BY DEF Seen, Sane
  <1>2. unread \subseteq archive.of \X (Halves \cup {"both"})
    BY FewFacts
  <1>3. ASSUME NEW u \in seen.torn PROVE u \in seen.of \X Halves
    <2>1. u \in archive.of \X (Halves \cup {"both"}) /\ u[1] \notin unseen
      BY <1>1, <1>2 DEF Sane
    <2>2. u = <<u[1], u[2]>> /\ u[1] \in archive.of /\ u[2] \in Halves \cup {"both"}
      BY <2>1
    <2>3. CASE u \in archive.torn
      BY <1>1, <2>1, <2>2, <2>3 DEF Sane
    <2>4. CASE u \in unread
      <3>1. u[2] # "both"
        <4>1. u[2] = "both" => <<u[1], "both">> \in unread
          BY <2>2, <2>4
        <4> QED BY <2>1, <2>2, <4>1
      <3> QED BY <1>1, <2>1, <2>2, <3>1
    <2> QED BY <1>1, <2>3, <2>4
  <1> HIDE DEF seen, unseen
  <1>4. seen.torn \subseteq seen.of \X Halves /\ seen.of \subseteq archive.of
    BY <1>1, <1>3
  <1> QED BY <1>1, <1>4 DEF Sane, seen

\* Unpack: a tree of what is meant, and all of it without trouble.
LEMMA UnpackStep ==
  ASSUME NEW p \in Places, Here(p), Unpack
  PROVE  FilesInv'
  <1>1. p = 17 /\ {16, 26} \subseteq Places
    BY Going, Where DEF Here, Unpack, Places
  <1>2. UNCHANGED <<call, slot, store, dirs, local, meant>> /\ call \in 0..MaxMissions
    BY DEF Unpack, Here, Typed
  <1>3. Downloaded /\ LogKept
    BY <1>1 DEF Here, Written
  <1>4. CASE Disturb("disk") /\ Die(<<"log">>) /\ Abandon
    <2>1. agenda' = Rest(26) /\ pc' = "idle"
      BY <1>4, Returns DEF Abandon
    <2>2. troubled \subseteq troubled' /\ <<call, "disk">> \in troubled'
      BY <1>4, Disturbed
    <2>3. Typed(26)' /\ StoredWhole' /\ Written(26)' /\ Reading(26)'
      BY <1>1, <1>2, <2>1, <2>2, StoredStays DEF Here, Typed, Written, Reading
    <2>4. Swept(26)'
      <3>1. dirs' \subseteq dirs \cup {Dir("down")}
        BY <1>2
      <3> QED BY <1>1, <1>2, <2>2, <3>1, SweptInTrouble DEF Here
    <2> QED BY <1>1, <2>1, <2>3, <2>4 DEF Here, FilesInv
  <1>5. CASE /\ Proceed
             /\ \/ Fine /\ \E b \in Built(local["json"]) : RestoreFrom(b[1], b[2])
                \/ Disturb("disk") /\ RestoreFrom({}, {})
                \/ /\ Disturb("disk")
                   /\ \E unread \in Few(local["json"].of \X (Halves \cup {"both"})) :
                        \E b \in Built(Seen(local["json"], unread)) : RestoreFrom(b[1], b[2])
    <2>1. agenda' = Rest(16)
      BY <1>1, <1>5, Going DEF Here, Unpack, After
    <2>2. troubled \subseteq troubled'
      BY <1>5, Disturbed DEF Fine
    <2>3. Typed(16)' /\ StoredWhole' /\ Written(16)'
      <3>1. LogKept'
        BY <1>2, <1>3, <2>2, LogStays DEF LogKept
      <3> QED BY <1>1, <1>2, <2>2, <3>1, StoredStays DEF Here, Typed, Written
    <2>4. Worked'
      <3>1. CASE Fine /\ \E b \in Built(local["json"]) : RestoreFrom(b[1], b[2])
        <4>1. PICK b \in Built(local["json"]) : RestoreFrom(b[1], b[2])
          BY <3>1
        <4>2. /\ b[1] \cup b[2] \subseteq meant[slot]
              /\ b[2] = {} \/ \E o \in b[1] \cup b[2] : b[2] = {o}
              /\ local["json"].whole /\ local["json"].torn = {} => b = <<meant[slot], {}>>
          BY <1>3, BuiltFacts DEF Downloaded
        <4>3. loaded' = b[1] \cup b[2] /\ hollow' = b[2] /\ troubled' = troubled
          BY <3>1, <4>1 DEF RestoreFrom, Fine
        <4>4. \/ loaded' = meant[slot] /\ hollow' = {}
              \/ <<call, "disk">> \in troubled
              \/ <<store[slot]["json"].by, "disk">> \in troubled
          <5>1. CASE local["json"].whole /\ local["json"].torn = {}
            BY <4>2, <4>3, <5>1
          <5> QED BY <1>3, <5>1 DEF Downloaded
        <4> QED BY <1>2, <4>2, <4>3, <4>4 DEF Worked
      <3>2. CASE Disturb("disk") /\ RestoreFrom({}, {})
        <4>1. loaded' = {} /\ hollow' = {} /\ <<call, "disk">> \in troubled'
          BY <3>2, Disturbed DEF RestoreFrom
        <4> QED BY <1>2, <4>1 DEF Worked
      <3>3. CASE /\ Disturb("disk")
                 /\ \E unread \in Few(local["json"].of \X (Halves \cup {"both"})) :
                      \E b \in Built(Seen(local["json"], unread)) : RestoreFrom(b[1], b[2])
        <4>0. PICK unread \in Few(local["json"].of \X (Halves \cup {"both"})) :
                \E b \in Built(Seen(local["json"], unread)) : RestoreFrom(b[1], b[2])
          BY <3>3
        <4>1. PICK b \in Built(Seen(local["json"], unread)) : RestoreFrom(b[1], b[2])
          BY <4>0
        <4>2. /\ Sane(Seen(local["json"], unread))
              /\ Seen(local["json"], unread).of \subseteq meant[slot]
          BY <1>3, SeenFacts DEF Downloaded
        <4>3. /\ b[1] \cup b[2] \subseteq meant[slot]
              /\ b[2] = {} \/ \E o \in b[1] \cup b[2] : b[2] = {o}
          <5>1. /\ b[1] \cup b[2] \subseteq Seen(local["json"], unread).of
                /\ b[2] = {} \/ \E o \in b[1] \cup b[2] : b[2] = {o}
            BY <4>2, BuiltFacts
          <5> QED BY <4>2, <5>1
        <4>4. loaded' = b[1] \cup b[2] /\ hollow' = b[2] /\ <<call, "disk">> \in troubled'
          BY <3>3, <4>1, Disturbed DEF RestoreFrom
        <4> QED BY <1>2, <4>3, <4>4 DEF Worked
      <3> QED BY <1>5, <3>1, <3>2, <3>3
    <2>5. Swept(16)'
      <3>1. \A kind \in DirKinds : p \in Due(kind) => 16 \in Due(kind)
        BY <1>1 DEF DirKinds, Due
      <3> QED BY <1>1, <1>2, <2>2, <3>1, SweptStays DEF Here
    <2> QED BY <1>1, <2>1, <2>3, <2>4, <2>5 DEF Here, FilesInv, Reading
  <1> QED BY <1>4, <1>5 DEF Unpack

\* Filter touches neither the files nor what was loaded; a panic still runs
\* the deferred deletions.
LEMMA FilterStep ==
  ASSUME NEW p \in Places, Here(p), Filter
  PROVE  FilesInv'
  <1>1. p = 16 /\ {15, 25} \subseteq Places
    BY Going, Where DEF Here, Filter, Places
  <1>2. PICK q \in {15, 16, 25} : agenda' = Rest(q) /\ (q = 25 => pc' = "panic")
    BY <1>1, Returns, Going DEF Here, Filter, After
  <1>3. UNCHANGED <<call, slot, store, dirs, local, meant, troubled, loaded, hollow>>
    BY DEF Filter, DeepFiltrateResources, vars
  <1>4. LogKept'
    <2>1. LogKept
      BY <1>1 DEF Here, Written
    <2> QED BY <1>3, <2>1, LogStays DEF LogKept
  <1>5. Typed(q)' /\ StoredWhole' /\ Written(q)'
    BY <1>1, <1>3, <1>4, StoredStays DEF Here, Typed, Written
  <1>6. Reading(q)'
    <2>1. pc' = "filter" => pc = "filter"
      BY DEF Filter, DeepFiltrateResources, vars
    <2>2. pc = "filter" => Worked'
      BY <1>3, WorkedStays DEF Here, Reading
    <2> QED BY <1>2, <2>1, <2>2 DEF Reading
  <1>7. Swept(q)'
    <2>1. \A kind \in DirKinds : p \in Due(kind) => q \in Due(kind)
      BY <1>1 DEF DirKinds, Due
    <2> QED BY <1>1, <1>3, <2>1, SweptStays DEF Here
  <1> QED BY <1>1, <1>2, <1>5, <1>6, <1>7 DEF Here, FilesInv

\* ApplyAndRename: the directory of the download is deleted by now, also when
\* the process ends.
LEMMA ApplyAndRenameStep ==
  ASSUME NEW p \in Places, Here(p), ApplyAndRename
  PROVE  FilesInv'
  <1>1. p = 14 /\ {13, 26} \subseteq Places
    BY Going, Where DEF Here, ApplyAndRename, Places
  <1>2. /\ UNCHANGED <<call, store, dirs, local, meant, troubled>>
        /\ pc' \in {"compared", "died"}
    BY DEF ApplyAndRename, Compare
  <1>3. PICK q \in {13, 26} :
          agenda' = Rest(q) /\ slot' = IF q = 13 THEN <<"restore", call>> ELSE slot
    BY <1>1, Going, Returns DEF Here, ApplyAndRename, After
  <1>4. Typed(q)'
    BY <1>1, <1>2, <1>3, MissionsAssumption DEF Here, Typed, Slots
  <1>5. LogKept'
    <2>1. LogKept
      BY <1>1 DEF Here, Written
    <2> QED BY <1>2, <2>1, LogStays DEF LogKept
  <1>6. StoredWhole' /\ Written(q)' /\ Reading(q)'
    BY <1>1, <1>2, <1>5, StoredStays DEF Here, Written, Reading
  <1>7. Swept(q)'
    <2>1. \A kind \in DirKinds : p \in Due(kind) => q \in Due(kind)
      BY <1>1 DEF DirKinds, Due
    <2> QED BY <1>1, <1>2, <2>1, SweptStays DEF Here
  <1> QED BY <1>1, <1>3, <1>4, <1>6, <1>7 DEF Here, FilesInv

\* CheckExist: only a directory of the store that has nothing gets another
\* meaning.
LEMMA CheckExistStep ==
  ASSUME NEW p \in Places, Here(p), CheckExist
  PROVE  FilesInv'
  <1>1. p = 13 /\ {1, 6, 12} \subseteq Places
    <2>1. p = 13
      BY Going, Where DEF Here, CheckExist
    <2> QED BY <2>1 DEF Places
  <1>2. UNCHANGED <<pc, tree, call, slot, store, dirs, local, troubled>>
    BY DEF CheckExist, vars
  <1>3. ASSUME NEW q \in {1, 6, 12} PROVE Reading(q)' /\ Swept(q)'
    <2>1. Reading(q)'
      BY <1>1, <1>2 DEF Here, Reading
    <2>2. \A kind \in DirKinds : p \in Due(kind) => q \in Due(kind)
      BY <1>1 DEF DirKinds, Due
    <2> QED BY <1>1, <1>2, <2>1, <2>2, SweptStays DEF Here
  <1>4. LogKept'
    <2>1. LogKept
      BY <1>1 DEF Here, Written
    <2> QED BY <1>2, <2>1, LogStays DEF LogKept
  <1>5. ASSUME NEW q \in {1, 6}, agenda' = Rest(q), meant' = meant
        PROVE  FilesInv'
    <2>1. Typed(q)' /\ StoredWhole' /\ Written(q)'
      BY <1>1, <1>2, <1>4, <1>5, StoredStays DEF Here, Typed, Written
    <2> QED BY <1>1, <1>3, <1>5, <2>1 DEF Here, FilesInv
  <1>6. CASE agenda' = LogSteps /\ UNCHANGED meant
    BY <1>5, <1>6, Marks
  <1>7. CASE Return(<<"log">>) /\ UNCHANGED meant
    BY <1>5, <1>7, Returns
  <1>8. CASE /\ ~Exists(slot) /\ Proceed
             /\ meant' = [meant EXCEPT ![slot] = Objects(tree)]
    <2>1. agenda' = Rest(12)
      BY <1>1, <1>8, Going DEF Here, CheckExist, After
    <2>2. Typed(12)' /\ meant'[slot] = Objects(tree)
      BY <1>1, <1>2, <1>8 DEF Here, Typed
    <2>3. StoredWhole'
      <3>1. \A s \in Slots \ {slot} : meant'[s] = meant[s]
        BY <1>8 DEF Here, Typed
      <3>2. DOMAIN store[slot] = {}
        BY <1>8 DEF Exists
      <3> QED BY <1>2, <3>1, <3>2 DEF Here, StoredWhole
    <2>4. Written(12)'
      <3>1. Objects(tree)' = Objects(tree)
        BY <1>2 DEF Objects
      <3> QED BY <1>2, <1>4, <2>2, <3>1 DEF Written
    <2> QED BY <1>1, <1>3, <2>1, <2>2, <2>3, <2>4 DEF Here, FilesInv
  <1> QED BY <1>6, <1>7, <1>8 DEF CheckExist

\* An error with the disk that is returned ends the mission but for its log,
\* with nothing more in the store.
LEMMA GivenUp ==
  ASSUME NEW p \in Places, Here(p), p # 0, NEW q \in {1, 24}, agenda' = Rest(q),
         UNCHANGED <<call, slot, store, meant, pc>>, p \notin {14, 15, 16, 27},
         NEW kind, dirs' \subseteq dirs \cup {Dir(kind)}, Disturb("disk")
  PROVE  FilesInv'
  <1>0. troubled \subseteq troubled' /\ <<call, "disk">> \in troubled'
    BY Disturbed
  <1>1. Typed(q)' /\ StoredWhole' /\ Written(q)'
    BY <1>0, StoredStays DEF Here, Typed, Written
  <1>2. Reading(q)'
    BY DEF Here, Reading
  <1>3. q \in Places
    BY DEF Places
  <1>4. Swept(q)'
    BY <1>0, <1>3, SweptInTrouble DEF Here, Typed
  <1> QED BY <1>1, <1>2, <1>3, <1>4 DEF Here, FilesInv

\* Write: files of objects may be cut short, for which the disk is to blame;
\* an error that is returned ends the mission, and an object without a
\* definition the process.
LEMMA WriteStep ==
  ASSUME NEW p \in Places, Here(p), NEW file \in Archived \cup {"log", "status"}, Write(file)
  PROVE  FilesInv'
  <1>1. <<file, p>> \in {<<"json", 12>>, <<"yaml", 11>>, <<"status", 6>>}
    <2>1. p # 0 /\ Entry(p) = <<"write", file>>
      BY Going DEF Here, Write
    <2>2. CASE file = "json"
      BY <2>1, <2>2, Where
    <2>3. CASE file = "yaml"
      BY <2>1, <2>3, Where
    <2>4. CASE file = "status"
      BY <2>1, <2>4, Where
    <2>5. file # "log"
      BY <2>1, Where
    <2> QED BY <2>2, <2>3, <2>4, <2>5 DEF Archived
  <1>2. After(p) \in Places /\ After(p) = p - 1 /\ {1, 26} \subseteq Places
    BY <1>1 DEF After, Places
  <1>3. UNCHANGED <<pc, tree, call, slot, store, meant>> /\ call \in 0..MaxMissions
    BY DEF Write, vars, Here, Typed
  <1> DEFINE S == IF file \in Archived THEN Objects(tree) ELSE {}
  <1>4. CASE /\ GiveUpUnless(TRUE)
             /\ IF file \in Archived THEN MakeDir("core") ELSE UNCHANGED dirs
             /\ \/ local' = With(local, file, Whole(S)) /\ Fine
                \/ \E torn \in Few(S \X Halves) \ {{}} :
                     local' = With(local, file, [Whole(S) EXCEPT !.torn = torn]) /\ Disturb("disk")
    <2> DEFINE q == After(p)
    <2>1. agenda' = Rest(q)
      BY <1>4, Going DEF Here, Write, GiveUpUnless, GoIf
    <2>2. troubled \subseteq troubled'
      BY <1>4, Disturbed DEF Fine
    <2>3. Typed(q)' /\ StoredWhole' /\ Reading(q)'
      BY <1>1, <1>2, <1>3, <2>2, StoredStays DEF Here, Typed, Reading
    <2>4. PICK content :
            /\ local' = With(local, file, content)
            /\ Sane(content) /\ content.of = S /\ content.whole = TRUE
            /\ \/ content = Whole(S)
               \/ file \in Archived /\ content.by = call /\ <<call, "disk">> \in troubled'
      <3>1. CASE local' = With(local, file, Whole(S))
        BY <3>1, WholeFacts
      <3>2. CASE \E torn \in Few(S \X Halves) \ {{}} :
                   local' = With(local, file, [Whole(S) EXCEPT !.torn = torn]) /\ Disturb("disk")
        <4>1. PICK torn \in Few(S \X Halves) \ {{}} :
                local' = With(local, file, [Whole(S) EXCEPT !.torn = torn]) /\ Disturb("disk")
          BY <3>2
        <4> DEFINE content == [Whole(S) EXCEPT !.torn = torn]
        <4>2. torn \subseteq S \X Halves
          BY FewFacts
        <4> HIDE DEF S
        <4>3. /\ DOMAIN content = {"of", "whole", "torn", "by"} /\ content.of = S
              /\ content.torn = torn /\ content.whole = TRUE /\ content.by = call
          BY DEF Whole
        <4>4. Sane(content)
          BY <4>2, <4>3 DEF Sane
        <4>5. file \in Archived
          <5>1. S # {}
            BY <4>2
          <5> QED BY <5>1 DEF S
        <4>6. <<call, "disk">> \in troubled'
          BY <4>1, Disturbed
        <4> QED BY <4>1, <4>3, <4>4, <4>5, <4>6
      <3> QED BY <1>4, <3>1, <3>2
    <2>5. /\ DOMAIN local' = DOMAIN local \cup {file} /\ local'[file] = content
          /\ \A x \in DOMAIN local \ {file} : local'[x] = local[x]
      BY <2>4 DEF With
    <2>6. LogKept'
      <3>1. LogKept /\ file # "log"
        BY <1>1 DEF Here, Written
      <3> QED BY <1>3, <2>2, <2>5, <3>1, LogStays DEF LogKept
    <2>7. file \in Archived => ToStore(file)' /\ meant'[slot'] = Objects(tree)'
      <3>1. ASSUME file \in Archived PROVE ToStore(file)' /\ meant'[slot'] = Objects(tree)'
        <4>1. S = meant[slot] /\ meant[slot] = Objects(tree)
          BY <1>1, <3>1 DEF Here, Written, Archived
        <4>2. Objects(tree)' = Objects(tree)
          BY <1>3 DEF Objects
        <4>3. content.torn = {} \/ (content.by = call /\ <<call, "disk">> \in troubled')
          BY <2>4, WholeFacts
        <4>4. Kept(content, file, meant[slot])'
          BY <2>4, <3>1, <4>1, <4>3, <1>3 DEF Kept
        <4>5. Sane(local'[file]) /\ Kept(local[file], file, meant[slot])'
          BY <1>3, <2>4, <2>5, <4>4 DEF Kept
        <4> QED BY <1>3, <4>1, <4>2, <4>5 DEF ToStore, Kept
      <3> QED BY <3>1
    <2>8. Written(q)'
      <3>1. CASE file = "json"
        BY <1>1, <1>2, <2>6, <2>7, <3>1 DEF Written, Archived
      <3>2. CASE file = "yaml"
        <4>1. ToStore("json")
          BY <1>1, <3>2 DEF Here, Written
        <4>2. ToStore("json")'
          BY <1>3, <2>2, <2>5, <3>2, <4>1, ToStoreStays
        <4> QED BY <1>1, <1>2, <2>6, <2>7, <3>2, <4>2 DEF Written, Archived
      <3>3. CASE file = "status"
        <4>1. file \notin Archived /\ S = {}
          BY <3>3 DEF Archived
        <4>2. content = Whole({}) /\ Whole({})' = Whole({})
          BY <1>3, <2>4, <4>1 DEF Whole
        <4> QED BY <1>1, <1>2, <2>5, <2>6, <3>3, <4>2 DEF Written
      <3> QED BY <1>1, <3>1, <3>2, <3>3
    <2>9. Swept(q)'
      <3>1. \A kind \in DirKinds : p \in Due(kind) => q \in Due(kind)
        BY <1>1, <1>2 DEF DirKinds, Due
      <3>2. CASE file \in Archived
        <4>1. q \in Due("core") /\ "core" \in DirKinds
          BY <1>1, <1>2, <3>2 DEF DirKinds, Due, Archived
        <4> QED BY <1>2, <1>3, <1>4, <2>2, <3>1, <3>2, <4>1, SweptAdd DEF Here, MakeDir
      <3>3. CASE file \notin Archived
        BY <1>2, <1>3, <1>4, <2>2, <3>1, <3>3, SweptStays DEF Here
      <3> QED BY <3>2, <3>3
    <2> QED BY <1>2, <2>1, <2>3, <2>8, <2>9 DEF Here, FilesInv
  <1>5. CASE /\ Disturb("disk") /\ GiveUpUnless(FALSE)
             /\ IF file \in Archived THEN MayMakeDir("core") ELSE UNCHANGED dirs
    <2>1. agenda' = Rest(1)
      BY <1>5, Returns DEF GiveUpUnless, GoIf
    <2>2. p # 0 /\ p \notin {14, 15, 16, 27} /\ dirs' \subseteq dirs \cup {Dir("core")}
      BY <1>1, <1>5 DEF MayMakeDir, MakeDir
    <2> QED BY <1>3, <1>5, <2>1, <2>2, GivenUp
  <1>6. CASE /\ Die(<<"log">>) /\ MakeDir("core")
             /\ troubled' = troubled \cup {<<call, "hollow">>}
    <2>1. agenda' = Rest(26)
      BY <1>6, Returns
    <2>2. troubled \subseteq troubled' /\ <<call, "hollow">> \in troubled'
      BY <1>6
    <2>3. Typed(26)' /\ StoredWhole' /\ Written(26)' /\ Reading(26)'
      BY <1>1, <1>3, <2>2, StoredStays DEF Here, Typed, Written, Reading
    <2>4. Swept(26)'
      BY <1>2, <1>3, <1>6, <2>2, SweptInTrouble DEF Here, MakeDir
    <2> QED BY <1>2, <2>1, <2>3, <2>4 DEF Here, FilesInv
  <1> QED BY <1>4, <1>5, <1>6 DEF Write

\* Pack: an error ends the mission, unless it is one with the log.
LEMMA PackStep ==
  ASSUME NEW p \in Places, Here(p), NEW file \in Archived \cup {"log", "status"}, Pack(file)
  PROVE  FilesInv'
  <1>1. <<file, p>> \in {<<"json", 10>>, <<"yaml", 9>>, <<"log", 5>>, <<"status", 4>>}
    BY Going, Where DEF Here, Pack, Archived
  <1>2. After(p) \in Places /\ After(p) = p - 1 /\ 1 \in Places
    BY <1>1 DEF After, Places
  <1>3. UNCHANGED <<pc, tree, call, slot, store, dirs, meant>>
    BY DEF Pack, vars
  <1>4. CASE /\ GiveUpUnless(TRUE)
             /\ \/ UNCHANGED local /\ Fine
                \/ /\ file = "log" /\ Disturb("disk")
                   /\ local' = [local EXCEPT ![file] = Broken(@)]
    <2> DEFINE q == After(p)
    <2>1. agenda' = Rest(q)
      BY <1>4, Going DEF Here, Pack, GiveUpUnless, GoIf
    <2>2. troubled \subseteq troubled'
      BY <1>4, Disturbed DEF Fine
    <2>3. Typed(q)' /\ StoredWhole' /\ Reading(q)'
      BY <1>1, <1>2, <1>3, <2>2, StoredStays DEF Here, Typed, Reading
    <2>4. DOMAIN local' = DOMAIN local /\ \A x \in DOMAIN local \ {"log"} : local'[x] = local[x]
      BY <1>4
    <2>5. p # 4 => LogKept'
      <3>1. ASSUME p # 4 PROVE LogKept
        BY <1>1, <3>1 DEF Here, Written
      <3>2. CASE UNCHANGED local
        BY <1>3, <2>2, <3>1, <3>2, LogStays DEF LogKept
      <3>3. CASE /\ file = "log" /\ Disturb("disk")
                 /\ local' = [local EXCEPT ![file] = Broken(@)]
        <4>1. LogKept
          BY <1>1, <3>1, <3>3
        <4>2. "log" \in DOMAIN local' /\ local'["log"] = Broken(local["log"])
          BY <3>3, <4>1 DEF LogKept
        <4>3. Broken(Broken(Whole({}))) = Broken(Whole({}))
          BY DEF Broken, Whole
        <4>4. local'["log"] = Broken(Whole({}))
          BY <4>1, <4>2, <4>3 DEF LogKept
        <4>5. Broken(Whole({}))' = Broken(Whole({}))
          BY <1>3 DEF Broken, Whole
        <4>6. <<call', "disk">> \in troubled'
          BY <1>3, <3>3, Disturbed
        <4> QED BY <4>2, <4>4, <4>5, <4>6 DEF LogKept
      <3> QED BY <1>4, <3>2, <3>3
    <2>6. Written(q)'
      <3>1. CASE p = 4
        <4>1. LogKept
          BY <3>1 DEF Here, Written
        <4>2. file # "log"
          BY <1>1, <3>1
        <4>3. LogKept'
          BY <1>3, <1>4, <2>2, <4>1, <4>2, LogStays DEF LogKept
        <4>4. "status" \in DOMAIN local' /\ local'["status"] = Whole({})
          BY <1>4, <3>1, <4>2 DEF Here, Written
        <4> QED BY <1>2, <1>3, <3>1, <4>3, <4>4 DEF Written, Whole
      <3>2. CASE p = 5
        <4>1. "status" \in DOMAIN local' /\ local'["status"] = Whole({})
          BY <2>4, <3>2 DEF Here, Written
        <4> QED BY <1>2, <1>3, <2>5, <3>2, <4>1 DEF Written, Whole
      <3>3. CASE p \in {9, 10}
        <4>1. ToStore("json") /\ ToStore("yaml")
          BY <3>3 DEF Here, Written
        <4>2. ToStore("json")' /\ ToStore("yaml")'
          BY <1>3, <2>2, <2>4, <4>1, ToStoreStays
        <4>3. meant'[slot'] = Objects(tree)'
          BY <1>3, <3>3 DEF Here, Written, Objects
        <4> QED BY <1>2, <2>5, <3>3, <4>2, <4>3 DEF Written
      <3> QED BY <1>1, <3>1, <3>2, <3>3
    <2>7. Swept(q)'
      <3>1. \A kind \in DirKinds : p \in Due(kind) => q \in Due(kind)
        BY <1>1, <1>2 DEF DirKinds, Due
      <3> QED BY <1>2, <1>3, <2>2, <3>1, SweptStays DEF Here
    <2> QED BY <1>2, <2>1, <2>3, <2>6, <2>7 DEF Here, FilesInv
  <1>5. CASE Disturb("disk") /\ GiveUpUnless(FALSE)
    <2>1. agenda' = Rest(1)
      BY <1>5, Returns DEF GiveUpUnless, GoIf
    <2>2. p # 0 /\ p \notin {14, 15, 16, 27} /\ dirs' \subseteq dirs \cup {Dir("core")}
      BY <1>1, <1>3
    <2> QED BY <1>3, <1>5, <2>1, <2>2, GivenUp
  <1> QED BY <1>4, <1>5 DEF Pack

\* What is put into the store is as it should be if the local file is.
LEMMA PutStep ==
  ASSUME NEW p \in Places, Here(p), NEW file \in DOMAIN local, Put(file),
         UNCHANGED <<meant, slot, call>>, troubled \subseteq troubled',
         Sane(local[file]), Kept(local[file], file, meant[slot])
  PROVE  StoredWhole' /\ Typed(p)'
  <1>1. /\ DOMAIN store' = Slots
        /\ \A s \in Slots \ {slot} : store'[s] = store[s]
        /\ store'[slot] = With(store[slot], file, local[file])
    BY DEF Here, Typed, Put
  <1>2. ASSUME NEW s \in Slots, NEW f \in DOMAIN store'[s]
        PROVE  Sane(store'[s][f]) /\ Kept(store'[s][f], f, meant[s])
    <2>1. \A x \in DOMAIN store[s] : Sane(store[s][x]) /\ Kept(store[s][x], x, meant[s])
      BY DEF Here, Typed, StoredWhole, Kept
    <2>2. CASE s # slot
      BY <1>1, <1>2, <2>1, <2>2
    <2>3. CASE s = slot /\ f = file
      <3>1. store'[s][f] = local[file]
        BY <1>1, <2>3 DEF With
      <3> QED BY <2>3, <3>1
    <2>4. CASE s = slot /\ f # file
      <3>1. f \in DOMAIN store[s] /\ store'[s][f] = store[s][f]
        BY <1>1, <1>2, <2>4 DEF With
      <3> QED BY <2>1, <3>1
    <2> QED BY <2>2, <2>3, <2>4
  <1>3. StoredWhole'
    BY <1>2 DEF StoredWhole, Kept
  <1>4. Typed(p)'
    BY <1>1, <1>2 DEF Here, Typed
  <1> QED BY <1>3, <1>4

\* Upload: both archives are what is meant at its place, and the directory of
\* the archives is deleted afterwards, whatever the outcome.
LEMMA UploadStep ==
  ASSUME NEW p \in Places, Here(p), NEW file \in Archived \cup {"log", "status"}, Upload(file)
  PROVE  FilesInv'
  <1>1. p = 8
    BY Going, Where DEF Here, Upload
  <1>2. {7, 8, 24} \subseteq Places
    BY DEF Places
  <1>3. file \in DOMAIN local /\ file \in Archived
    BY DEF Upload
  <1>4. Sane(local[file]) /\ Kept(local[file], file, meant[slot])
    BY <1>1, <1>3 DEF Here, Written, Archived, ToStore
  <1>5. UNCHANGED <<pc, tree, call, slot, dirs, meant>> /\ troubled \subseteq troubled'
    BY Disturbed DEF Upload, vars, Fine
  <1>6. Typed(p)' /\ StoredWhole'
    <2>1. CASE Put(file)
      BY <1>3, <1>4, <1>5, <2>1, PutStep
    <2>2. CASE UNCHANGED store
      BY <1>5, <2>2, StoredStays DEF Here, Typed
    <2> QED BY <2>1, <2>2 DEF Upload
  <1>7. ASSUME NEW q \in {7, 8, 24} PROVE Typed(q)' /\ Written(q)' /\ Reading(q)'
    <2>1. Typed(q)' /\ Reading(q)'
      BY <1>1, <1>5, <1>6 DEF Here, Typed, Reading
    <2>2. /\ DOMAIN local' = DOMAIN local \ {file}
          /\ \A x \in DOMAIN local \ {file} : local'[x] = local[x]
      BY DEF Upload, Restrict
    <2>3. file # "log" /\ Objects(tree)' = Objects(tree)
      BY <1>3, <1>5 DEF Archived, Objects
    <2>4. /\ ToStore("json") /\ ToStore("yaml") /\ LogKept /\ meant[slot] = Objects(tree)
      BY <1>1 DEF Here, Written
    <2>5. ToStore("json")' /\ ToStore("yaml")'
      BY <1>5, <2>2, <2>4, ToStoreStays
    <2>6. LogKept'
      BY <1>5, <2>2, <2>3, <2>4, LogStays DEF LogKept
    <2>7. Written(q)'
      BY <1>5, <2>3, <2>4, <2>5, <2>6 DEF Written
    <2> QED BY <2>1, <2>7
  <1>8. ASSUME NEW q \in {7, 8, 24} PROVE Swept(q)'
    <2>1. \A kind \in DirKinds : p \in Due(kind) => q \in Due(kind)
      BY <1>1 DEF DirKinds, Due
    <2> QED BY <1>1, <1>2, <1>5, <2>1, SweptStays DEF Here
  <1>9. CASE /\ Put(file) /\ Fine
             /\ IF DOMAIN local' \cap Archived = {} THEN Proceed ELSE UNCHANGED agenda
    <2>1. PICK q \in {7, 8} : agenda' = Rest(q)
      BY <1>1, <1>9, Going DEF Here, Upload, After
    <2> QED BY <1>2, <1>6, <1>7, <1>8, <2>1 DEF Here, FilesInv
  <1>10. CASE StopUploads
    <2>1. agenda' = Rest(24)
      BY <1>10, Returns DEF StopUploads
    <2> QED BY <1>2, <1>6, <1>7, <1>8, <2>1 DEF Here, FilesInv
  <1> QED BY <1>9, <1>10 DEF Upload

\* Ship: the log and the status too, but that lines of the log may be missing.
LEMMA ShipStep ==
  ASSUME NEW p \in Places, Here(p), NEW file \in Archived \cup {"log", "status"}, Ship(file)
  PROVE  FilesInv'
  <1>1. <<file, p>> \in {<<"log", 3>>, <<"status", 2>>}
    <2>1. p # 0 /\ Entry(p) = <<"ship", file>>
      BY Going DEF Here, Ship
    <2>2. file \in {"log", "status"}
      BY <2>1, Where
    <2>3. CASE file = "log"
      BY <2>1, <2>3, Where
    <2>4. CASE file = "status"
      BY <2>1, <2>4, Where
    <2> QED BY <2>2, <2>3, <2>4
  <1>2. {1, 2} \subseteq Places /\ After(p) = p - 1
    BY <1>1 DEF Places, After
  <1>3. file \in DOMAIN local /\ Sane(local[file]) /\ Kept(local[file], file, meant[slot])
    <2>1. file \notin Archived
      BY <1>1 DEF Archived
    <2>2. CASE file = "status"
      <3>1. "status" \in DOMAIN local /\ local["status"] = Whole({})
        BY <1>1, <2>2 DEF Here, Written
      <3> QED BY <2>1, <2>2, <3>1, WholeFacts DEF Kept
    <2>3. CASE file = "log"
      <3>1. LogKept
        BY <1>1, <2>3 DEF Here, Written
      <3>2. /\ Sane(Broken(Whole({}))) /\ Broken(Whole({})).of = {}
            /\ Broken(Whole({})).by = call
        BY WholeFacts, BrokenFacts
      <3> QED BY <2>1, <2>3, <3>1, <3>2, WholeFacts DEF Kept, LogKept
    <2> QED BY <1>1, <2>2, <2>3
  <1>4. UNCHANGED <<pc, call, slot, dirs, local, meant>> /\ troubled \subseteq troubled'
    BY Disturbed DEF Ship, vars, Fine
  <1>5. Typed(p)' /\ StoredWhole'
    <2>1. CASE Put(file)
      BY <1>3, <1>4, <2>1, PutStep
    <2>2. CASE UNCHANGED store
      BY <1>4, <2>2, StoredStays DEF Here, Typed
    <2> QED BY <2>1, <2>2 DEF Ship
  <1>6. PICK q \in {1, p - 1} : agenda' = Rest(q)
    BY <1>2, Going, Returns DEF Here, Ship, GoIf
  <1>7. q \in {1, 2} /\ Typed(q)' /\ Written(q)' /\ Reading(q)'
    <2>1. "status" \in DOMAIN local /\ local["status"] = Whole({})
      BY <1>1 DEF Here, Written
    <2>2. "status" \in DOMAIN local' /\ local'["status"] = Whole({})'
      BY <1>4, <2>1 DEF Whole
    <2> QED BY <1>1, <1>4, <1>5, <2>2 DEF Here, Typed, Written, Reading
  <1>8. Swept(q)'
    <2>1. \A kind \in DirKinds : p \in Due(kind) => q \in Due(kind)
      BY <1>1, <1>7 DEF DirKinds, Due
    <2> QED BY <1>2, <1>4, <1>7, <2>1, SweptStays DEF Here
  <1> QED BY <1>2, <1>5, <1>6, <1>7, <1>8 DEF Here, FilesInv

\* DeleteDir: what is deleted is no longer due.
LEMMA DeleteDirStep ==
  ASSUME NEW p \in Places, Here(p), NEW kind \in {"log", "core", "down"}, DeleteDir(kind)
  PROVE  FilesInv'
  <1> DEFINE q == After(p)
  <1>1. /\ q \in Places /\ agenda' = Rest(q)
        /\ <<kind, p, q>> \in {<<"log", 1, 0>>, <<"log", 26, 27>>, <<"core", 7, 6>>,
                               <<"core", 24, 1>>, <<"down", 15, 14>>, <<"down", 25, 26>>}
    <2>1. p # 0 /\ Entry(p) = <<"delete", kind>> /\ q \in Places /\ agenda' = Rest(q)
      BY Going DEF Here, DeleteDir
    <2>2. CASE kind = "log"
      BY <2>1, <2>2, Where DEF After
    <2>3. CASE kind = "core"
      BY <2>1, <2>3, Where DEF After
    <2>4. CASE kind = "down"
      BY <2>1, <2>4, Where DEF After
    <2> QED BY <2>1, <2>2, <2>3, <2>4
  <1> HIDE DEF q
  <1>2. UNCHANGED <<pc, loaded, hollow, call, slot, store, meant>> /\ troubled \subseteq troubled'
    BY Disturbed DEF DeleteDir, vars, Fine
  <1>3. Typed(q)' /\ StoredWhole'
    BY <1>1, <1>2, StoredStays DEF Here, Typed
  <1>4. Reading(q)'
    <2>1. pc = "filter" => p = 15 /\ Worked
      BY <1>1 DEF Here, Reading
    <2>2. pc = "filter" => Worked'
      BY <1>2, <2>1, WorkedStays
    <2> QED BY <1>1, <1>2, <2>1, <2>2 DEF Reading
  <1>5. Written(q)'
    <2>1. CASE q \in {6, 14}
      <3>1. LogKept
        BY <1>1, <2>1 DEF Here, Written
      <3>2. local' = Restrict(local, DOMAIN local \ Archived)
        BY <1>1, <2>1 DEF DeleteDir
      <3>3. "log" \in DOMAIN local' /\ local'["log"] = local["log"]
        BY <3>1, <3>2 DEF Restrict, Archived, LogKept
      <3>4. LogKept'
        BY <1>2, <3>1, <3>3, LogStays
      <3> QED BY <2>1, <3>4 DEF Written
    <2>2. CASE q \notin {6, 14}
      BY <1>1, <2>2 DEF Written
    <2> QED BY <2>1, <2>2
  <1>6. Swept(q)'
    <2>1. CASE dirs' = dirs \ {Dir(kind)} /\ Fine
      <3>1. \A k \in DirKinds : p \in Due(k) => q \in Due(k) \/ Dir(k) \notin dirs'
        <4>1. \A k \in DirKinds \ {kind} : p \in Due(k) => q \in Due(k)
          BY <1>1 DEF DirKinds, Due
        <4> QED BY <2>1, <4>1
      <3> QED BY <1>1, <1>2, <2>1, <3>1, SweptStays DEF Here
    <2>2. CASE UNCHANGED dirs /\ Disturb("disk")
      <3>1. /\ <<call, "disk">> \in troubled' /\ call \in 0..MaxMissions
            /\ dirs' \subseteq dirs \cup {Dir(kind)}
        BY <2>2, Disturbed DEF Here, Typed
      <3> QED BY <1>1, <1>2, <3>1, SweptInTrouble DEF Here
    <2> QED BY <2>1, <2>2 DEF DeleteDir
  <1> QED BY <1>1, <1>3, <1>4, <1>5, <1>6 DEF Here, FilesInv

\* Restart: everything that is left is of missions in trouble.
LEMMA RestartsStep ==
  ASSUME NEW p \in Places, Here(p), Restart
  PROVE  FilesInv'
  <1>1. p = 27 /\ 0 \in Places /\ agenda' = Rest(0)
    <2>1. p = 27
      BY Going, Where DEF Here, Restart
    <2>2. agenda' = Rest(0)
      BY Marks DEF Restart
    <2> QED BY <2>1, <2>2 DEF Places
  <1>2. UNCHANGED <<call, slot, store, dirs, meant, troubled>> /\ pc' = "idle"
    BY DEF Restart
  <1>3. Typed(0)' /\ StoredWhole' /\ Written(0)' /\ Reading(0)'
    BY <1>2, StoredStays DEF Here, Typed, Written, Reading
  <1>4. Swept(0)'
    <2>1. \A kind \in DirKinds : p \notin Due(kind)
      BY <1>1 DEF DirKinds, Due
    <2> QED BY <1>1, <1>2, <2>1, SweptStays DEF Here
  <1> QED BY <1>1, <1>3, <1>4 DEF Here, FilesInv

\* Kill may come anywhere and makes trouble.
LEMMA KillStep ==
  ASSUME NEW p \in Places, Here(p), Kill
  PROVE  FilesInv'
  <1>1. p # 0 /\ 27 \in Places /\ agenda' = Rest(27)
    BY Marks DEF Here, Kill, Places
  <1>2. UNCHANGED <<pc, loaded, hollow, call, slot, store, dirs, meant>>
    BY DEF Kill, vars
  <1>3. /\ troubled \subseteq troubled' /\ <<call, "kill">> \in troubled'
        /\ call \in 0..MaxMissions
    BY Disturbed DEF Kill, Here, Typed
  <1>4. Typed(27)' /\ StoredWhole' /\ Written(27)'
    BY <1>1, <1>2, <1>3, StoredStays DEF Here, Typed, Written
  <1>5. Reading(27)'
    BY <1>2, <1>3, WorkedStays DEF Here, Reading
  <1>6. Swept(27)'
    <2>1. dirs' \subseteq dirs \cup {Dir("log")}
      BY <1>2
    <2> QED BY <1>1, <1>2, <1>3, <2>1, SweptInTrouble DEF Here
  <1> QED BY <1>1, <1>4, <1>5, <1>6 DEF Here, FilesInv

\* Every step of every action keeps the invariant.
LEMMA FilesInvNext ==
  ASSUME FilesInv, [NextFiles]_allVars
  PROVE  FilesInv'
  <1> PICK p \in Places : Here(p)
    BY DEF FilesInv
  <1>1. CASE \E kind \in {"backup", "restore"}, name \in Names : BeginMission(kind, name)
    BY <1>1, BeginMissionStep
  <1>2. CASE OpenLog \/ CallFails \/ Discover \/ Build
    BY <1>2, OpenLogStep, CallFailsStep, DiscoverStep, BuildStep
  <1>3. CASE Find \/ Fetch \/ Unpack \/ Filter \/ ApplyAndRename
    BY <1>3, FindStep, FetchStep, UnpackStep, FilterStep, ApplyAndRenameStep
  <1>4. CASE CheckExist
    BY <1>4, CheckExistStep
  <1>5. CASE \E file \in Archived \cup {"log", "status"} :
               Write(file) \/ Pack(file) \/ Upload(file) \/ Ship(file)
    BY <1>5, WriteStep, PackStep, UploadStep, ShipStep
  <1>6. CASE \E kind \in {"log", "core", "down"} : DeleteDir(kind)
    BY <1>6, DeleteDirStep
  <1>7. CASE Restart \/ Kill
    BY <1>7, RestartsStep, KillStep
  <1>8. CASE UNCHANGED allVars
    <2>1. /\ UNCHANGED <<pc, tree, loaded, hollow, agenda, call, slot, store, dirs, local,
                         meant, troubled>>
      BY <1>8 DEF allVars, files, vars
    <2>2. agenda' = Rest(p) /\ Typed(p)' /\ StoredWhole'
      BY <2>1, StoredStays DEF Here, Typed
    <2>3. Written(p)'
      <3>1. LogKept => LogKept'
        BY <2>1, LogStays DEF LogKept
      <3>2. \A file : ToStore(file) => ToStore(file)'
        BY <2>1, ToStoreStays
      <3>3. Downloaded => Downloaded'
        BY <2>1 DEF Downloaded
      <3>4. Objects(tree)' = Objects(tree) /\ Whole({})' = Whole({})
        BY <2>1 DEF Objects, Whole
      <3> QED BY <2>1, <3>1, <3>2, <3>3, <3>4 DEF Here, Written
    <2>4. Reading(p)'
      BY <2>1, WorkedStays DEF Here, Reading
    <2>5. Swept(p)'
      BY <2>1, SweptStays DEF Here
    <2> QED BY <2>2, <2>3, <2>4, <2>5 DEF Here, FilesInv
  <1> QED BY <1>1, <1>2, <1>3, <1>4, <1>5, <1>6, <1>7, <1>8 DEF NextFiles, Mission

-----------------------------------------------------------------------------
(* The theorems.                                                           *)

\* So it always holds.
LEMMA FilesAlways == SpecFiles => []FilesInv
  BY FilesInvInit, FilesInvNext, PTL DEF SpecFiles

\* What is in the store is what was meant, and whole but for files of objects,
\* and the log, of missions that had trouble with their disk: StoredWhole of
\* Archives, for every number of missions, faults, names and worlds.
THEOREM ArchivesStoredWhole == SpecFiles => []StoredWhole
  <1>1. FilesInv => StoredWhole
    BY DEF FilesInv, Here
  <1> QED BY <1>1, FilesAlways, PTL

\* A restore works on all that the backup of that name was meant to store, or
\* on some of it after trouble with its disk or that of the backup, but never
\* on anything else: RoundTrip of Archives.
THEOREM ArchivesRoundTrip == SpecFiles => []RoundTrip
  <1>1. FilesInv => RoundTrip
    BY DEF FilesInv, Here, Reading, Worked, RoundTrip
  <1> QED BY <1>1, FilesAlways, PTL

\* Only a mission that was killed, had trouble with its disk or came upon an
\* object without a definition leaves a working directory behind: Tidy of
\* Archives.
THEOREM ArchivesTidy == SpecFiles => []Tidy
  <1>1. ASSUME FilesInv PROVE Tidy
    <2>1. PICK p \in Places : Here(p)
      BY <1>1 DEF FilesInv
    <2>2. ASSUME NEW d \in dirs, ~Befallen(d[1]) PROVE d[1] = call /\ agenda # <<>>
      <3>1. PICK kind \in DirKinds : d = Dir(kind) /\ p \in Due(kind)
        BY <2>1, <2>2 DEF Here, Swept
      <3>2. p # 0
        BY <3>1 DEF DirKinds, Due
      <3>3. agenda # <<>>
        BY <2>1, <3>2, Heads DEF Here
      <3> QED BY <3>1, <3>3 DEF Dir
    <2> QED BY <2>2 DEF Tidy, Befallen
  <1> QED BY <1>1, FilesAlways, PTL
=============================================================================
