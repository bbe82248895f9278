--------------------------- MODULE AdaptersProofs -----------------------------
(***************************************************************************)
(* Lemmas about Adapters, for every set of providers and any number of     *)
(* edits: what cutting and appending does to the lines and blocks of a     *)
(* native file, the invariant that ties each file to its artifact in the   *)
(* manifest, and that every command of the adapters, every edit and the    *)
(* beginning keep it.  Kept says what a command owes to each single file;  *)
(* module MaintenanceProofs proves it of its own commands as well.         *)
(***************************************************************************)
EXTENDS Adapters, SequenceTheorems, WellFoundedInduction, TLAPS

-----------------------------------------------------------------------------
(* Cutting a stretch out of a file, and appending a token to it.           *)

\* What is left of a sequence when a stretch of it is cut out.
LEMMA CutProperties ==
    ASSUME NEW T, NEW c \in Seq(T), NEW from \in 1..Len(c), NEW to \in from..Len(c)
    PROVE  /\ Cut(c, from, to) \in Seq(T)
           /\ Len(Cut(c, from, to)) = Len(c) - (to - from + 1)
           /\ \A i \in 1..(from - 1) : Cut(c, from, to)[i] = c[i]
           /\ \A i \in from..Len(Cut(c, from, to)) : Cut(c, from, to)[i] = c[i + (to - from + 1)]
<1> DEFINE head == SubSeq(c, 1, from - 1)
           tail == SubSeq(c, to + 1, Len(c))
<1>1. Len(c) \in Nat /\ \A i \in 1..Len(c) : c[i] \in T
  BY LenProperties, ElementOfSeq
<1>2. from \in Int /\ to \in Int /\ from >= 1 /\ from <= to /\ to <= Len(c)
  BY <1>1
<1>3. /\ head \in Seq(T) /\ Len(head) = from - 1
      /\ \A i \in 1..(from - 1) : head[i] = c[i]
  <2>1. \A i \in 1..(from - 1) : c[i] \in T
    BY <1>1, <1>2
  <2>2. /\ head \in Seq(T) /\ Len(head) = IF 1 <= from - 1 THEN (from - 1) - 1 + 1 ELSE 0
        /\ \A i \in 1..((from - 1) - 1 + 1) : head[i] = c[1 + i - 1]
    BY <1>2, <2>1, SubSeqProperties
  <2> HIDE DEF head
  <2>3. Len(head) = from - 1
    BY <1>2, <2>2
  <2>4. \A i \in 1..(from - 1) : head[i] = c[i]
    BY <1>2, <2>2
  <2> QED
    BY <2>2, <2>3, <2>4
<1>4. /\ tail \in Seq(T) /\ Len(tail) = Len(c) - to
      /\ \A i \in 1..(Len(c) - to) : tail[i] = c[i + to]
  <2>1. \A i \in (to + 1)..Len(c) : c[i] \in T
    BY <1>1, <1>2
  <2>2. /\ tail \in Seq(T) /\ Len(tail) = IF to + 1 <= Len(c) THEN Len(c) - (to + 1) + 1 ELSE 0
        /\ \A i \in 1..(Len(c) - (to + 1) + 1) : tail[i] = c[(to + 1) + i - 1]
    BY <1>1, <1>2, <2>1, SubSeqProperties
  <2> HIDE DEF tail
  <2>3. Len(tail) = Len(c) - to
    BY <1>1, <1>2, <2>2
  <2>4. \A i \in 1..(Len(c) - to) : tail[i] = c[i + to]
    <3> TAKE i \in 1..(Len(c) - to)
    <3>1. i \in 1..(Len(c) - (to + 1) + 1) /\ (to + 1) + i - 1 = i + to
      BY <1>1, <1>2
    <3> QED
      BY <2>2, <3>1
  <2> QED
    BY <2>2, <2>3, <2>4
<1>5. Cut(c, from, to) = head \o tail
  BY DEF Cut
<1> HIDE DEF head, tail
<1>6. /\ head \o tail \in Seq(T) /\ Len(head \o tail) = Len(head) + Len(tail)
      /\ \A i \in 1..(Len(head) + Len(tail)) :
            (head \o tail)[i] = IF i <= Len(head) THEN head[i] ELSE tail[i - Len(head)]
  BY <1>3, <1>4, ConcatProperties
<1> DEFINE cut == head \o tail
<1> HIDE DEF cut
<1>7. cut \in Seq(T) /\ Len(cut) = Len(c) - (to - from + 1)
  BY <1>1, <1>2, <1>3, <1>4, <1>6 DEF cut
<1>8. \A i \in 1..(from - 1) : cut[i] = c[i]
  <2> TAKE i \in 1..(from - 1)
  <2>1. i \in 1..(Len(head) + Len(tail)) /\ i <= Len(head)
    BY <1>1, <1>2, <1>3, <1>4
  <2> QED
    BY <1>3, <1>6, <2>1 DEF cut
<1>9. \A i \in from..Len(cut) : cut[i] = c[i + (to - from + 1)]
  <2> TAKE i \in from..Len(cut)
  <2>1. /\ i \in 1..(Len(head) + Len(tail)) /\ ~(i <= Len(head))
        /\ i - Len(head) \in 1..(Len(c) - to)
        /\ (i - Len(head)) + to = i + (to - from + 1)
    BY <1>1, <1>2, <1>3, <1>4, <1>7
  <2>2. cut[i] = tail[i - Len(head)]
    BY <1>6, <2>1 DEF cut
  <2> QED
    BY <1>4, <2>1, <2>2
<1> QED
  BY <1>5, <1>7, <1>8, <1>9 DEF cut

\* A token appended stands last, on a line of its own.
LEMMA AppendedProperties ==
    ASSUME NEW T, NEW c \in Seq(T), NEW x \in T, NL \in T
    PROVE  /\ Appended(c, x) \in Seq(T)
           /\ c = <<>> => Appended(c, x) = <<x>>
           /\ c # <<>> => Len(Appended(c, x)) = Len(c) + 2
           /\ c # <<>> => \A i \in 1..Len(c) : Appended(c, x)[i] = c[i]
           /\ c # <<>> => Appended(c, x)[Len(c) + 1] = NL
           /\ Appended(c, x)[Len(Appended(c, x))] = x
<1>1. CASE c = <<>>
  <2>1. <<x>> \in Seq(T) /\ Len(<<x>>) = 1 /\ <<x>>[1] = x
    OBVIOUS
  <2>2. Appended(c, x) = <<x>>
    BY <1>1, <2>1, ConcatEmptySeq DEF Appended
  <2> QED
    BY <1>1, <2>1, <2>2
<1>2. CASE c # <<>>
  <2> DEFINE d == Append(c, NL)
  <2>1. Len(c) \in Nat
    BY LenProperties
  <2>2. /\ d \in Seq(T) /\ Len(d) = Len(c) + 1
        /\ \A i \in 1..Len(c) : d[i] = c[i] 
        /\ d[Len(c) + 1] = NL
    BY AppendProperties
  <2>3. Appended(c, x) = d \o <<x>>
    BY <1>2 DEF Appended
  <2>4. <<x>> \in Seq(T) /\ Len(<<x>>) = 1 /\ <<x>>[1] = x
    OBVIOUS
  <2> HIDE DEF d
  <2>5. /\ d \o <<x>> \in Seq(T) /\ Len(d \o <<x>>) = Len(d) + Len(<<x>>)
        /\ \A i \in 1..(Len(d) + Len(<<x>>)) :
              (d \o <<x>>)[i] = IF i <= Len(d) THEN d[i] ELSE <<x>>[i - Len(d)]
    BY <2>2, <2>4, ConcatProperties
  <2> DEFINE e == d \o <<x>>
  <2> HIDE DEF e
  <2>6. e \in Seq(T) /\ Len(e) = Len(c) + 2
    BY <2>1, <2>2, <2>4, <2>5 DEF e
  <2>7. \A i \in 1..Len(c) : e[i] = c[i]
    BY <2>1, <2>2, <2>4, <2>5 DEF e
  <2>8. e[Len(c) + 1] = NL
    BY <2>1, <2>2, <2>4, <2>5 DEF e
  <2>9. e[Len(e)] = x
    <3>1. Len(e) \in 1..(Len(d) + Len(<<x>>)) /\ ~(Len(e) <= Len(d)) /\ Len(e) - Len(d) = 1
      BY <2>1, <2>2, <2>4, <2>6
    <3>2. e[Len(e)] = <<x>>[Len(e) - Len(d)]
      BY <2>5, <3>1 DEF e
    <3> QED
      BY <2>4, <3>1, <3>2
  <2> QED
    BY <1>2, <2>3, <2>6, <2>7, <2>8, <2>9 DEF e
<1> QED
  BY <1>1, <1>2

-----------------------------------------------------------------------------
(* Managed blocks: where they stand and what is left without them.         *)

\* The one member of a set.
LEMMA OnlyMember ==
    ASSUME NEW x
    PROVE  Only({x}) = x
BY DEF Only

\* What is assumed of the constants, one by one.
LEMMA EditsAreBounded == MaxEdits \in Nat
BY Zenon, AdaptersAssumption
LEMMA KindsOfEdits == \A how \in Edits : how \in {"prepend", "append", "delete", "empty", "strip"}
BY Zenon, AdaptersAssumption
LEMMA KnownProviders == \A id \in Providers : id \in {"codex", "claude-code", "workbuddy"}
BY Zenon, AdaptersAssumption
LEMMA NothingIsAFact == "" \in Facts
BY Zenon, AdaptersAssumption

\* The kinds of tokens tell them apart.
LEMMA Kinds ==
    /\ NL.kind = "newline"
    /\ \A n : Line(n).kind = "line" /\ Line(n) # NL
    /\ \A t : ImportOf(t).kind = "import" /\ ImportOf(t) # NL
    /\ \A id, cs : BlockOf(id, cs).kind = "block"
    /\ \A n, t : Line(n) # ImportOf(t)
BY DEF NL, Line, ImportOf, BlockOf

\* A managed block goes without a trace, and nothing else of its kind comes.
LEMMA RemoveManagedBlockProperties ==
    ASSUME NEW T, NEW c \in Seq(T), NEW i \in DOMAIN c, Blocks(c) = {i}
    PROVE  /\ RemoveManagedBlock(c) \in Seq(T)
           /\ Blocks(RemoveManagedBlock(c)) = {}
           /\ Places(c, "import") = {} => Places(RemoveManagedBlock(c), "import") = {}
<1> DEFINE from == IF i = 1 THEN 1 ELSE i - 1
           r == Cut(c, from, i)
<1>1. RemoveManagedBlock(c) = r
  BY OnlyMember DEF RemoveManagedBlock
<1>2. Len(c) \in Nat /\ DOMAIN c = 1..Len(c)
  BY LenProperties
<1>3. from \in 1..Len(c) /\ i \in from..Len(c) /\ i \in Int /\ from \in Int
  BY <1>2
<1> HIDE DEF from
<1>4. /\ r \in Seq(T) /\ Len(r) = Len(c) - (i - from + 1)
      /\ \A j \in 1..(from - 1) : r[j] = c[j]
      /\ \A j \in from..Len(r) : r[j] = c[j + (i - from + 1)]
  BY <1>3, CutProperties
<1> HIDE DEF r
<1>5. DOMAIN r = 1..Len(r) /\ Len(r) \in Nat
  BY <1>4, LenProperties
<1>6. \A j \in DOMAIN r : \E k \in DOMAIN c \ {i} : r[j] = c[k]
  <2> SUFFICES ASSUME NEW j \in DOMAIN r
               PROVE  \E k \in DOMAIN c \ {i} : r[j] = c[k]
    OBVIOUS
  <2>1. CASE j < from
    <3>1. j \in 1..(from - 1) /\ j \in DOMAIN c \ {i}
      BY <1>2, <1>3, <1>5, <2>1
    <3> QED
      BY <1>4, <3>1
  <2>2. CASE ~(j < from)
    <3>1. j \in from..Len(r) /\ j + (i - from + 1) \in DOMAIN c \ {i}
      BY <1>2, <1>3, <1>4, <1>5, <2>2
    <3> QED
      BY <1>4, <3>1
  <2> QED
    BY <2>1, <2>2
<1>7. \A k \in DOMAIN c \ {i} : c[k].kind # "block"
  BY DEF Blocks, Places
<1> QED
  BY <1>1, <1>4, <1>6, <1>7 DEF Blocks, Places

\* What a token appended adds to the places of a kind.
LEMMA PlacesOfAppended ==
    ASSUME NEW T, NEW c \in Seq(T), NEW x \in T, NL \in T, NEW kind, kind # "newline"
    PROVE  /\ Places(c, kind) = {} /\ x.kind = kind =>
                 Places(Appended(c, x), kind) = {Len(Appended(c, x))}
           /\ Places(c, kind) = {} /\ x.kind # kind => Places(Appended(c, x), kind) = {}
           /\ Len(Appended(c, x)) \in DOMAIN Appended(c, x)
           /\ Appended(c, x) # <<>>
<1> DEFINE d == Appended(c, x)
<1>1. /\ d \in Seq(T)
      /\ c = <<>> => d = <<x>>
      /\ c # <<>> => Len(d) = Len(c) + 2
      /\ c # <<>> => \A i \in 1..Len(c) : d[i] = c[i]
      /\ c # <<>> => d[Len(c) + 1] = NL
      /\ d[Len(d)] = x
  BY AppendedProperties
<1> HIDE DEF d
<1>2. Len(c) \in Nat /\ DOMAIN c = 1..Len(c) /\ Len(d) \in Nat /\ DOMAIN d = 1..Len(d)
  BY <1>1, LenProperties
<1>3. Len(d) >= 1 /\ d # <<>>
  <2>1. CASE c = <<>>
    BY <1>1, <2>1
  <2>2. CASE c # <<>>
    <3>1. Len(d) >= 1
      BY <1>1, <1>2, <2>2
    <3> QED
      BY <3>1, EmptySeq
  <2> QED
    BY <2>1, <2>2
<1>4. \A i \in DOMAIN d : i # Len(d) => d[i] = NL \/ \E k \in DOMAIN c : d[i] = c[k]
  <2> SUFFICES ASSUME NEW i \in DOMAIN d, i # Len(d)
               PROVE  d[i] = NL \/ \E k \in DOMAIN c : d[i] = c[k]
    OBVIOUS
  <2>1. c # <<>>
    <3> SUFFICES ASSUME c = <<>> PROVE FALSE
      OBVIOUS
    <3>1. Len(d) = 1
      BY <1>1
    <3> QED
      BY <1>2, <3>1
  <2>2. i \in 1..Len(c) \/ i = Len(c) + 1
    BY <1>1, <1>2, <2>1
  <2> QED
    BY <1>1, <1>2, <2>1, <2>2
<1>5. \A i \in DOMAIN d : Places(c, kind) = {} /\ i # Len(d) => d[i].kind # kind
  BY <1>4, Kinds DEF Places
<1>6. Len(d) \in DOMAIN d
  BY <1>2, <1>3
<1> QED
  BY <1>1, <1>3, <1>5, <1>6 DEF Places, d

\* Taking away what was appended leaves what was there.
LEMMA CutOfAppended ==
    ASSUME NEW T, NEW c \in Seq(T), NEW x \in T, NL \in T, NEW d, d = Appended(c, x)
    PROVE  Cut(d, IF Len(d) = 1 THEN 1 ELSE Len(d) - 1, Len(d)) = c
<1>1. /\ d \in Seq(T)
      /\ c = <<>> => d = <<x>>
      /\ c # <<>> => Len(d) = Len(c) + 2
      /\ c # <<>> => \A i \in 1..Len(c) : d[i] = c[i]
  <2>1. /\ Appended(c, x) \in Seq(T)
        /\ c = <<>> => Appended(c, x) = <<x>>
        /\ c # <<>> => Len(Appended(c, x)) = Len(c) + 2
        /\ c # <<>> => \A i \in 1..Len(c) : Appended(c, x)[i] = c[i]
        /\ c # <<>> => Appended(c, x)[Len(c) + 1] = NL
        /\ Appended(c, x)[Len(Appended(c, x))] = x
    BY AppendedProperties
  <2> QED
    BY <2>1
<1>2. /\ Len(c) \in Nat /\ Len(d) \in Nat
      /\ c = <<>> => Len(d) = 1 /\ Len(c) = 0
      /\ c # <<>> => Len(c) > 0
  <2>1. c = <<>> => Len(d) = 1 /\ Len(c) = 0
    BY <1>1
  <2>2. c # <<>> => Len(c) > 0
    BY EmptySeq
  <2> QED
    BY <1>1, <2>1, <2>2, LenProperties
<1> DEFINE from == IF Len(d) = 1 THEN 1 ELSE Len(d) - 1
<1>3. from \in 1..Len(d) /\ Len(d) \in from..Len(d) /\ from = Len(c) + 1
  <2>1. Len(d) >= 1 /\ from = Len(c) + 1 /\ from <= Len(d)
    BY <1>1, <1>2
  <2> QED
    BY <1>2, <2>1
<1> DEFINE r == Cut(d, from, Len(d))
<1> HIDE DEF from
<1>4. /\ r \in Seq(T) /\ Len(r) = Len(d) - (Len(d) - from + 1)
      /\ \A i \in 1..(from - 1) : r[i] = d[i]
  BY <1>1, <1>3, CutProperties
<1> HIDE DEF r
<1>5. Len(r) = Len(c)
  BY <1>2, <1>3, <1>4
<1>6. \A i \in 1..Len(r) : r[i] = c[i]
  <2> TAKE i \in 1..Len(r)
  <2>1. i \in 1..(from - 1) /\ i \in 1..Len(c) /\ c # <<>>
    BY <1>2, <1>3, <1>5
  <2> QED
    BY <1>1, <1>4, <2>1
<1>7. r = c
  BY <1>4, <1>5, <1>6, SeqEqual
<1> QED
  BY <1>7 DEF r, from

\* Removing a block brings back the content it was appended to.
LEMMA RemoveOfAppended ==
    ASSUME NEW T, NEW c \in Seq(T), NEW x \in T, NL \in T,
           Blocks(c) = {}, x.kind = "block"
    PROVE  /\ RemoveManagedBlock(Appended(c, x)) = c
           /\ Outside(Appended(c, x)) = c
<1> DEFINE d == Appended(c, x)
<1>1. Blocks(d) = {Len(d)}
  BY PlacesOfAppended DEF Blocks
<1>2. RemoveManagedBlock(d) = Cut(d, IF Len(d) = 1 THEN 1 ELSE Len(d) - 1, Len(d))
  BY <1>1, OnlyMember DEF RemoveManagedBlock
<1>3. d = Appended(c, x)
  OBVIOUS
<1> HIDE DEF d
<1>4. RemoveManagedBlock(d) = c
  BY <1>2, <1>3, CutOfAppended
<1> QED
  BY <1>1, <1>3, <1>4 DEF Outside

\* A line break stands before every block, but at the beginning of a file.
Delimited(c) == \A i \in Blocks(c) : i > 1 => c[i - 1] = NL

\* A block that was appended to a content leaves all of that content to the user.
LEMMA UserPartOfAppended ==
    ASSUME NEW T, NEW c \in Seq(T), NEW x \in T, NL \in T, Blocks(c) = {}, x.kind = "block"
    PROVE  \A a : a # NULL /\ a.outside = c => UserPart(Appended(c, x), a) = c
<1>1. PICK d : d = Appended(c, x)
  OBVIOUS
<1>2. Blocks(d) = {Len(d)} /\ Only(Blocks(d)) = Len(d)
  BY <1>1, PlacesOfAppended, OnlyMember DEF Blocks
<1>3. Cut(d, IF Len(d) = 1 THEN 1 ELSE Len(d) - 1, Len(d)) = c
  BY <1>1, CutOfAppended
<1>4. /\ c = <<>> => d = <<x>>
      /\ c # <<>> => Len(d) = Len(c) + 2
      /\ c # <<>> => d[Len(c) + 1] = NL
  <2>1. /\ Appended(c, x) \in Seq(T)
        /\ c = <<>> => Appended(c, x) = <<x>>
        /\ c # <<>> => Len(Appended(c, x)) = Len(c) + 2
        /\ c # <<>> => \A i \in 1..Len(c) : Appended(c, x)[i] = c[i]
        /\ c # <<>> => Appended(c, x)[Len(c) + 1] = NL
        /\ Appended(c, x)[Len(Appended(c, x))] = x
    BY AppendedProperties
  <2> QED
    BY <1>1, <2>1
<1>5. CASE c = <<>>
  <2>1. Len(d) = 1
    BY <1>4, <1>5
  <2>2. ~BreakBefore(d)
    BY <1>2, <2>1 DEF BreakBefore
  <2>3. Cut(d, 1, 1) = c
    BY <1>3, <2>1
  <2>4. ASSUME NEW a, a # NULL, a.outside = c
        PROVE  UserPart(d, a) = c
    BY <1>2, <2>1, <2>2, <2>3, <2>4 DEF UserPart
  <2> QED
    BY <1>1, <2>4
<1>6. CASE c # <<>>
  <2>1. Len(c) \in Nat /\ Len(c) > 0
    BY <1>6, LenProperties, EmptySeq
  <2>2. Len(d) > 1 /\ Len(d) # 1 /\ Len(d) - 1 = Len(c) + 1
    BY <1>4, <1>6, <2>1
  <2>3. BreakBefore(d)
    BY <1>2, <1>4, <1>6, <2>2 DEF BreakBefore
  <2>4. Cut(d, Len(d) - 1, Len(d)) = c
    BY <1>3, <2>2
  <2>5. ASSUME NEW a, a # NULL, a.outside = c
        PROVE  UserPart(d, a) = c
    BY <1>2, <1>6, <2>3, <2>4, <2>5 DEF UserPart
  <2> QED
    BY <1>1, <2>5
<1> QED
  BY <1>5, <1>6

\* A block taken away leaves what is the user's, or that without the line break
\* he put before a block that UAWP wrote without one.
LEMMA UserPartOrBreak ==
    ASSUME NEW c, NEW i \in Nat \ {0}, Blocks(c) = {i}, i > 1 => c[i - 1] = NL,
           NEW a, a # NULL
    PROVE  \/ RemoveManagedBlock(c) = UserPart(c, a)
           \/ a.outside = <<>> /\ BreakBefore(c)
<1>1. Only(Blocks(c)) = i
  BY OnlyMember
<1>2. RemoveManagedBlock(c) = Cut(c, IF i = 1 THEN 1 ELSE i - 1, i)
  BY <1>1 DEF RemoveManagedBlock
<1>3. UserPart(c, a) = Cut(c, IF a.outside # <<>> /\ BreakBefore(c) THEN i - 1 ELSE i, i)
  BY <1>1 DEF UserPart
<1>4. BreakBefore(c) <=> i > 1
  BY <1>1 DEF BreakBefore
<1>5. CASE i = 1
  <2>1. ~BreakBefore(c)
    BY <1>4, <1>5
  <2> QED
    BY <1>2, <1>3, <1>5, <2>1
<1>6. CASE i # 1
  <2>1. BreakBefore(c)
    BY <1>4, <1>6
  <2> QED
    BY <1>2, <1>3, <1>6, <2>1
<1> QED
  BY <1>5, <1>6

-----------------------------------------------------------------------------
(* Import lines: where they stand and what is left without them.           *)

\* What a token appended does to the lines.
LEMMA LinesWhenAppended ==
    ASSUME NEW T, NEW c \in Seq(T), NEW x \in T, NL \in T, NEW token, token # NL,
           NEW d, d = Appended(c, x)
    PROVE  \A i : i \in Lines(d, token) <=> i \in Lines(c, token) \/ (x = token /\ i = Len(d))
<1>1. /\ d \in Seq(T)
      /\ c = <<>> => d = <<x>>
      /\ c # <<>> => Len(d) = Len(c) + 2
      /\ c # <<>> => \A i \in 1..Len(c) : d[i] = c[i]
      /\ c # <<>> => d[Len(c) + 1] = NL
      /\ d[Len(d)] = x
  <2>1. /\ Appended(c, x) \in Seq(T)
        /\ c = <<>> => Appended(c, x) = <<x>>
        /\ c # <<>> => Len(Appended(c, x)) = Len(c) + 2
        /\ c # <<>> => \A i \in 1..Len(c) : Appended(c, x)[i] = c[i]
        /\ c # <<>> => Appended(c, x)[Len(c) + 1] = NL
        /\ Appended(c, x)[Len(Appended(c, x))] = x
    BY AppendedProperties
  <2> QED
    BY <2>1
<1>2. Len(c) \in Nat /\ DOMAIN c = 1..Len(c) /\ Len(d) \in Nat /\ DOMAIN d = 1..Len(d)
  BY <1>1, LenProperties
<1>3. CASE c = <<>>
  <2>1. Len(d) = 1 /\ d[1] = x /\ Len(c) = 0
    BY <1>1, <1>3
  <2>2. Lines(c, token) = {}
    BY <1>2, <2>1 DEF Lines
  <2>3. DOMAIN d = {1}
    BY <1>2, <2>1
  <2>4. Lines(d, token) = IF x = token THEN {1} ELSE {}
    BY <2>1, <2>3 DEF Lines
  <2> QED
    BY <2>1, <2>2, <2>4
<1>4. CASE c # <<>>
  <2>1. /\ Len(d) = Len(c) + 2 /\ \A i \in 1..Len(c) : d[i] = c[i]
        /\ d[Len(c) + 1] = NL /\ d[Len(c) + 2] = x
    BY <1>1, <1>4
  <2>2. \A i \in 1..Len(c) : i \in Lines(d, token) <=> i \in Lines(c, token)
    <3> TAKE i \in 1..Len(c)
    <3>1. d[i] = c[i] /\ i \in DOMAIN d /\ i \in DOMAIN c /\ i < Len(d)
      BY <1>2, <2>1
    <3>2. i > 1 => d[i - 1] = c[i - 1]
      <4>1. i > 1 => i - 1 \in 1..Len(c)
        BY <1>2
      <4> QED
        BY <2>1, <4>1
    <3>3. d[i + 1] = NL <=> (i < Len(c) => c[i + 1] = NL)
      <4>1. CASE i < Len(c)
        <5>1. i + 1 \in 1..Len(c)
          BY <1>2, <4>1
        <5> QED
          BY <2>1, <4>1, <5>1
      <4>2. CASE ~(i < Len(c))
        <5>1. i + 1 = Len(c) + 1
          BY <1>2, <4>2
        <5> QED
          BY <2>1, <4>2, <5>1
      <4> QED
        BY <4>1, <4>2
    <3> QED
      BY <3>1, <3>2, <3>3 DEF Lines
  <2>3. Len(c) + 1 \notin Lines(d, token)
    BY <2>1 DEF Lines
  <2>4. Len(c) + 2 \in Lines(d, token) <=> x = token
    <3>1. /\ Len(c) + 2 \in DOMAIN d /\ ~(Len(c) + 2 < Len(d))
          /\ (Len(c) + 2) - 1 = Len(c) + 1
      BY <1>2, <2>1
    <3> QED
      BY <2>1, <3>1 DEF Lines
  <2>5. /\ \A i \in Lines(d, token) : i \in 1..Len(c) \/ i = Len(c) + 1 \/ i = Len(c) + 2
        /\ Lines(c, token) \subseteq 1..Len(c)
    BY <1>2, <2>1 DEF Lines
  <2> QED
    BY <2>1, <2>2, <2>3, <2>4, <2>5
<1> QED
  BY <1>3, <1>4

\* A token appended leaves the lines of the others as they are.
LEMMA OtherLinesOfAppended ==
    ASSUME NEW T, NEW c \in Seq(T), NEW x \in T, NL \in T, NEW token, token # NL, token # x
    PROVE  Lines(Appended(c, x), token) = Lines(c, token)
<1>1. PICK d : d = Appended(c, x)
  OBVIOUS
<1>2. \A i : i \in Lines(d, token) <=> i \in Lines(c, token) \/ (x = token /\ i = Len(d))
  BY <1>1, LinesWhenAppended
<1> QED
  BY <1>1, <1>2

\* A token appended is a line itself.
LEMMA LinesOfAppended ==
    ASSUME NEW T, NEW c \in Seq(T), NEW x \in T, NL \in T, x # NL, Lines(c, x) = {}
    PROVE  Lines(Appended(c, x), x) = {Len(Appended(c, x))}
<1>1. PICK d : d = Appended(c, x)
  OBVIOUS
<1>2. PICK token : token = x
  OBVIOUS
<1>3. token # NL
  BY <1>2
<1>4. \A i : i \in Lines(d, token) <=> i \in Lines(c, token) \/ (x = token /\ i = Len(d))
  BY <1>1, <1>3, LinesWhenAppended
<1> QED
  BY <1>1, <1>2, <1>4

\* A line put in front of a file that has some.
InFront(x, c) == <<x>> \o (<<NL>> \o c)

\* The line, its end, and the file moved by two.
MovedByTwo(d, x, c) ==
    \A i \in 1..Len(d) : \/ i = 1 /\ d[i] = x
                         \/ i = 2 /\ d[i] = NL
                         \/ i - 2 \in 1..Len(c) /\ d[i] = c[i - 2]

\* What is put in front of a file takes two places, and the rest moves by two.
LEMMA LengthInFront ==
    ASSUME NEW T, NEW c \in Seq(T), NEW x \in T, NL \in T, NEW d, d = InFront(x, c)
    PROVE  d \in Seq(T) /\ Len(d) = 2 + Len(c)
<1>1. Len(c) \in Nat /\ DOMAIN c = 1..Len(c)
  BY LenProperties
<1>2. <<x>> \in Seq(T) /\ Len(<<x>>) = 1 /\ <<x>>[1] = x
  OBVIOUS
<1> DEFINE e == <<NL>> \o c
<1>3. <<NL>> \in Seq(T) /\ Len(<<NL>>) = 1 /\ <<NL>>[1] = NL
  OBVIOUS
<1>4. /\ <<NL>> \o c \in Seq(T) /\ Len(<<NL>> \o c) = Len(<<NL>>) + Len(c)
      /\ \A i \in 1..(Len(<<NL>>) + Len(c)) :
            (<<NL>> \o c)[i] = IF i <= Len(<<NL>>) THEN <<NL>>[i] ELSE c[i - Len(<<NL>>)]
  BY <1>3, ConcatProperties
<1>5. d = <<x>> \o e
  BY DEF InFront
<1> HIDE DEF e
<1>6. e \in Seq(T) /\ Len(e) = 1 + Len(c)
      /\ \A i \in 1..(1 + Len(c)) : e[i] = IF i <= 1 THEN NL ELSE c[i - 1]
  <2>1. \A i \in 1..(1 + Len(c)) : e[i] = IF i <= 1 THEN NL ELSE c[i - 1]
    <3> TAKE i \in 1..(1 + Len(c))
    <3>1. e[i] = IF i <= 1 THEN <<NL>>[i] ELSE c[i - 1]
      BY <1>3, <1>4 DEF e
    <3>2. i <= 1 => i = 1
      BY <1>1
    <3> QED
      BY <1>3, <3>1, <3>2
  <2> QED
    BY <1>3, <1>4, <2>1 DEF e
<1>7. /\ <<x>> \o e \in Seq(T) /\ Len(<<x>> \o e) = Len(<<x>>) + Len(e)
      /\ \A i \in 1..(Len(<<x>>) + Len(e)) :
            (<<x>> \o e)[i] = IF i <= Len(<<x>>) THEN <<x>>[i] ELSE e[i - Len(<<x>>)]
  BY <1>2, <1>6, ConcatProperties
<1>8. d \in Seq(T) /\ Len(d) = 2 + Len(c) /\ DOMAIN d = 1..(2 + Len(c))
  BY <1>1, <1>2, <1>5, <1>6, <1>7, LenProperties
<1> QED
  BY <1>8

\* And what is in the places of it.
LEMMA PlacesInFront ==
    ASSUME NEW T, NEW c \in Seq(T), NEW x \in T, NL \in T, NEW d, d = InFront(x, c)
    PROVE  MovedByTwo(d, x, c)
<1>1. Len(c) \in Nat /\ DOMAIN c = 1..Len(c)
  BY LenProperties
<1>2. <<x>> \in Seq(T) /\ Len(<<x>>) = 1 /\ <<x>>[1] = x
  OBVIOUS
<1> DEFINE e == <<NL>> \o c
<1>3. <<NL>> \in Seq(T) /\ Len(<<NL>>) = 1 /\ <<NL>>[1] = NL
  OBVIOUS
<1>4. /\ <<NL>> \o c \in Seq(T) /\ Len(<<NL>> \o c) = Len(<<NL>>) + Len(c)
      /\ \A i \in 1..(Len(<<NL>>) + Len(c)) :
            (<<NL>> \o c)[i] = IF i <= Len(<<NL>>) THEN <<NL>>[i] ELSE c[i - Len(<<NL>>)]
  BY <1>3, ConcatProperties
<1>5. d = <<x>> \o e
  BY DEF InFront
<1> HIDE DEF e
<1>6. e \in Seq(T) /\ Len(e) = 1 + Len(c)
      /\ \A i \in 1..(1 + Len(c)) : e[i] = IF i <= 1 THEN NL ELSE c[i - 1]
  <2>1. \A i \in 1..(1 + Len(c)) : e[i] = IF i <= 1 THEN NL ELSE c[i - 1]
    <3> TAKE i \in 1..(1 + Len(c))
    <3>1. e[i] = IF i <= 1 THEN <<NL>>[i] ELSE c[i - 1]
      BY <1>3, <1>4 DEF e
    <3>2. i <= 1 => i = 1
      BY <1>1
    <3> QED
      BY <1>3, <3>1, <3>2
  <2> QED
    BY <1>3, <1>4, <2>1 DEF e
<1>7. /\ <<x>> \o e \in Seq(T) /\ Len(<<x>> \o e) = Len(<<x>>) + Len(e)
      /\ \A i \in 1..(Len(<<x>>) + Len(e)) :
            (<<x>> \o e)[i] = IF i <= Len(<<x>>) THEN <<x>>[i] ELSE e[i - Len(<<x>>)]
  BY <1>2, <1>6, ConcatProperties
<1>8. d \in Seq(T) /\ Len(d) = 2 + Len(c) /\ DOMAIN d = 1..(2 + Len(c))
  BY <1>1, <1>2, <1>5, <1>6, <1>7, LenProperties
<1>9. d[1] = x /\ d[2] = NL /\ \A i \in 3..(2 + Len(c)) : d[i] = c[i - 2]
  <2>1. \A i \in 1..(2 + Len(c)) : d[i] = IF i <= 1 THEN <<x>>[i] ELSE e[i - 1]
    BY <1>1, <1>2, <1>5, <1>6, <1>7
  <2>2. d[1] = x
    BY <1>1, <1>2, <2>1
  <2>3. \A i \in 2..(2 + Len(c)) : d[i] = IF i <= 2 THEN NL ELSE c[i - 2]
    <3> TAKE i \in 2..(2 + Len(c))
    <3>1. i \in 1..(2 + Len(c)) /\ ~(i <= 1) /\ i - 1 \in 1..(1 + Len(c)) /\ (i - 1) - 1 = i - 2
          /\ (i - 1 <= 1 <=> i <= 2)
      BY <1>1
    <3>2. d[i] = e[i - 1]
      BY <2>1, <3>1
    <3> QED
      BY <1>6, <3>1, <3>2
  <2>4. 2 \in 2..(2 + Len(c)) /\ \A i \in 3..(2 + Len(c)) : i \in 2..(2 + Len(c)) /\ ~(i <= 2)
    BY <1>1
  <2>5. d[2] = NL
    <3>1. 2 \in 2..(2 + Len(c)) /\ 2 <= 2
      BY <1>1
    <3>2. d[2] = IF 2 <= 2 THEN NL ELSE c[2 - 2]
      BY <2>3, <3>1
    <3> QED
      BY <3>1, <3>2
  <2>6. \A i \in 3..(2 + Len(c)) : d[i] = c[i - 2]
    BY <2>3, <2>4
  <2> QED
    BY <2>2, <2>5, <2>6
<1>10. ASSUME NEW i \in 1..Len(d)
       PROVE  \/ i = 1 /\ d[i] = x
              \/ i = 2 /\ d[i] = NL
              \/ i - 2 \in 1..Len(c) /\ d[i] = c[i - 2]
  <2>1. i = 1 \/ i = 2 \/ i \in 3..(2 + Len(c))
    BY <1>1, <1>8
  <2>2. i \in 3..(2 + Len(c)) => i - 2 \in 1..Len(c)
    BY <1>1
  <2> QED
    BY <1>9, <2>1, <2>2
<1> QED
  BY <1>10 DEF MovedByTwo

\* A line put in front shifts the lines that are there.
LEMMA LinesOfPrepended ==
    ASSUME NEW T, NEW c \in Seq(T), NEW x \in T, NL \in T, NEW token, token # NL, token # x,
           NEW d, c = <<>> => d = <<x>> \o <<>>, c # <<>> => d = <<x>> \o (<<NL>> \o c)
    PROVE  /\ d \in Seq(T)
           /\ \A i \in DOMAIN d : d[i] \in {x, NL} \/ (i - 2 \in DOMAIN c /\ d[i] = c[i - 2])
           /\ \A i \in Lines(d, token) : i - 2 \in Lines(c, token)
<1>1. Len(c) \in Nat /\ DOMAIN c = 1..Len(c)
  BY LenProperties
<1>2. <<x>> \in Seq(T) /\ Len(<<x>>) = 1 /\ <<x>>[1] = x
  OBVIOUS
<1>3. CASE c = <<>>
  <2>1. d = <<x>>
    BY <1>2, <1>3, ConcatEmptySeq
  <2>2. DOMAIN d = {1} /\ d[1] = x
    BY <1>2, <2>1
  <2> QED
    BY <1>2, <2>1, <2>2 DEF Lines
<1>4. CASE c # <<>>
  <2>1. d = InFront(x, c)
    BY <1>4 DEF InFront
  <2>2. d \in Seq(T) /\ Len(d) = 2 + Len(c)
    BY <2>1, LengthInFront
  <2>3. MovedByTwo(d, x, c)
    BY <2>1, PlacesInFront
  <2>6. d \in Seq(T) /\ Len(d) = 2 + Len(c) /\ DOMAIN d = 1..(2 + Len(c))
    BY <2>2, LenProperties
  <2>7. /\ \A i \in 1..(2 + Len(c)) : i = 1 => d[i] = x
        /\ \A i \in 1..(2 + Len(c)) : i = 2 => d[i] = NL
        /\ \A i \in 3..(2 + Len(c)) : d[i] = c[i - 2]
    <3>1. \A i \in 3..(2 + Len(c)) : i \in 1..(2 + Len(c)) /\ i # 1 /\ i # 2
      BY <1>1
    <3>2. ASSUME NEW i \in 1..(2 + Len(c))
          PROVE  (i = 1 => d[i] = x) /\ (i = 2 => d[i] = NL)
      BY <1>1, <2>2, <2>3 DEF MovedByTwo
    <3> QED
      BY <2>2, <2>3, <3>1, <3>2 DEF MovedByTwo
  <2>8. \A i \in 1..(2 + Len(c)) : i = 1 \/ i = 2 \/ i \in 3..(2 + Len(c))
    BY <1>1
  <2>9. \A i \in 3..(2 + Len(c)) : i - 2 \in DOMAIN c
    BY <1>1
  <2>10. ASSUME NEW i \in Lines(d, token)
         PROVE  i - 2 \in Lines(c, token)
    <3>1. /\ i \in DOMAIN d /\ d[i] = token
          /\ i > 1 => d[i - 1] = NL
          /\ i < Len(d) => d[i + 1] = NL
      BY DEF Lines
    <3>2. i \in 3..(2 + Len(c))
      BY <2>6, <2>7, <2>8, <3>1
    <3>3. i - 2 \in DOMAIN c /\ c[i - 2] = token
      BY <2>7, <2>9, <3>1, <3>2
    <3>4. i - 2 > 1 => c[(i - 2) - 1] = NL
      <4> SUFFICES ASSUME i - 2 > 1 PROVE c[(i - 2) - 1] = NL
        OBVIOUS
      <4>1. i - 1 \in 3..(2 + Len(c)) /\ (i - 1) - 2 = (i - 2) - 1 /\ i > 1
        BY <1>1, <3>2
      <4> QED
        BY <2>7, <3>1, <4>1
    <3>5. i - 2 < Len(c) => c[(i - 2) + 1] = NL
      <4> SUFFICES ASSUME i - 2 < Len(c) PROVE c[(i - 2) + 1] = NL
        OBVIOUS
      <4>1. i + 1 \in 3..(2 + Len(c)) /\ (i + 1) - 2 = (i - 2) + 1 /\ i < Len(d)
        BY <1>1, <2>6, <3>2
      <4> QED
        BY <2>7, <3>1, <4>1
    <3> QED
      BY <3>3, <3>4, <3>5 DEF Lines
  <2> QED
    BY <2>6, <2>7, <2>8, <2>9, <2>10
<1> QED
  BY <1>3, <1>4

\* A line put in front leaves every block at the beginning of a line.
LEMMA DelimitedWhenPrepended ==
    ASSUME NEW T, NEW c \in Seq(T), NEW x \in T, NL \in T, ~IsBridge(x), Delimited(c),
           NEW d, c = <<>> => d = <<x>> \o <<>>, c # <<>> => d = <<x>> \o (<<NL>> \o c)
    PROVE  Delimited(d)
<1>1. Len(c) \in Nat /\ DOMAIN c = 1..Len(c)
  BY LenProperties
<1>2. <<x>> \in Seq(T) /\ Len(<<x>>) = 1 /\ <<x>>[1] = x
  OBVIOUS
<1>3. CASE c = <<>>
  <2>1. d = <<x>>
    BY <1>2, <1>3, ConcatEmptySeq
  <2>2. DOMAIN d = {1} /\ d[1] = x
    BY <1>2, <2>1
  <2> QED
    BY <2>2 DEF Delimited, Blocks, Places
<1>4. CASE c # <<>>
  <2>1. d = InFront(x, c)
    BY <1>4 DEF InFront
  <2>2. d \in Seq(T) /\ Len(d) = 2 + Len(c)
    BY <2>1, LengthInFront
  <2>3. MovedByTwo(d, x, c)
    BY <2>1, PlacesInFront
  <2>6. d \in Seq(T) /\ Len(d) = 2 + Len(c) /\ DOMAIN d = 1..(2 + Len(c))
    BY <2>2, LenProperties
  <2>7. /\ \A i \in 1..(2 + Len(c)) : i = 1 => d[i] = x
        /\ \A i \in 1..(2 + Len(c)) : i = 2 => d[i] = NL
        /\ \A i \in 3..(2 + Len(c)) : d[i] = c[i - 2]
    <3>1. \A i \in 3..(2 + Len(c)) : i \in 1..(2 + Len(c)) /\ i # 1 /\ i # 2
      BY <1>1
    <3>2. ASSUME NEW i \in 1..(2 + Len(c))
          PROVE  (i = 1 => d[i] = x) /\ (i = 2 => d[i] = NL)
      BY <1>1, <2>2, <2>3 DEF MovedByTwo
    <3> QED
      BY <2>2, <2>3, <3>1, <3>2 DEF MovedByTwo
  <2>8. \A i \in 1..(2 + Len(c)) : i = 1 \/ i = 2 \/ i \in 3..(2 + Len(c))
    BY <1>1
  <2>9. \A i \in 3..(2 + Len(c)) : i - 2 \in DOMAIN c
    BY <1>1
  <2>11. ASSUME NEW i \in Blocks(d), i > 1
         PROVE  d[i - 1] = NL
    <3>1. i \in DOMAIN d /\ d[i].kind = "block"
      BY DEF Blocks, Places
    <3>2. i \in 3..(2 + Len(c))
      BY <2>6, <2>7, <2>8, <2>11, <3>1, Kinds DEF IsBridge
    <3>3. i - 2 \in Blocks(c)
      BY <2>7, <2>9, <3>1, <3>2 DEF Blocks, Places
    <3>4. CASE i = 3
      BY <2>7, <3>4
    <3>5. CASE i # 3
      <4>1. i - 2 > 1 /\ i - 1 \in 3..(2 + Len(c)) /\ (i - 1) - 2 = (i - 2) - 1
        BY <1>1, <3>2, <3>5
      <4>2. c[(i - 2) - 1] = NL
        BY <3>3, <4>1 DEF Delimited
      <4> QED
        BY <2>7, <4>1, <4>2
    <3> QED
      BY <3>4, <3>5
  <2> QED
    BY <2>11 DEF Delimited
<1> QED
  BY <1>3, <1>4

\* An import goes with its line, and the other lines stay lines or cease to be.
LEMMA RemoveImportProperties ==
    ASSUME NEW T, NEW c \in Seq(T), NEW target, ImportPossible(c, target),
           NEW r, r = RemoveImport(c, target)
    PROVE  /\ r \in Seq(T)
           /\ \A j \in DOMAIN r : \E k \in DOMAIN c : r[j] = c[k]
           /\ ~Imports(r, target)
           /\ \A t : Imports(r, t) => Imports(c, t)
           /\ \A t : ImportPossible(c, t) => ImportPossible(r, t)
<1>1. CASE ~Imports(c, target)
  BY <1>1 DEF RemoveImport
<1>2. CASE Imports(c, target)
  <2> DEFINE this == ImportOf(target)
  <2>1. PICK at : Lines(c, this) = {at}
    BY <1>2 DEF Imports, ImportPossible
  <2>2. Len(c) \in Nat /\ DOMAIN c = 1..Len(c)
    BY LenProperties
  <2>3. /\ at \in 1..Len(c) /\ c[at] = this
        /\ at > 1 => c[at - 1] = NL
        /\ at < Len(c) => c[at + 1] = NL
    BY <2>1, <2>2 DEF Lines
  <2> DEFINE from == IF at = 1 THEN 1 ELSE at - 1
             to == IF at = Len(c) THEN at ELSE at + 1
             k == to - from + 1
  <2>4. r = Cut(c, from, to)
    BY <1>2, <2>1, OnlyMember DEF RemoveImport
  <2>5. /\ from \in 1..Len(c) /\ to \in from..Len(c) /\ from <= at /\ at <= to
        /\ from = at \/ from = at - 1
        /\ to = at \/ to = at + 1
        /\ from \in Int /\ to \in Int /\ k \in Int /\ k >= 1
    <3>1. at \in Int /\ Len(c) \in Int /\ 1 <= at /\ at <= Len(c)
      BY <2>2, <2>3
    <3>2. from \in Int /\ 1 <= from /\ from <= at /\ (from = at \/ from = at - 1)
      BY <3>1
    <3>3. to \in Int /\ at <= to /\ to <= Len(c) /\ (to = at \/ to = at + 1)
      BY <3>1
    <3> HIDE DEF from, to
    <3> QED
      BY <3>1, <3>2, <3>3
  <2>6. /\ from # 1 => c[at - 1] = NL /\ from = at - 1
        /\ to # Len(c) => c[at + 1] = NL /\ to = at + 1
    <3>1. at \in Int /\ Len(c) \in Int /\ 1 <= at /\ at <= Len(c)
      BY <2>2, <2>3
    <3>2. from # 1 => at > 1 /\ from = at - 1
      BY <3>1
    <3>3. to # Len(c) => at < Len(c) /\ to = at + 1
      BY <3>1
    <3> HIDE DEF from, to
    <3> QED
      BY <2>3, <3>2, <3>3
  <2> HIDE DEF from, to
  <2>7. /\ r \in Seq(T) /\ Len(r) = Len(c) - (to - from + 1)
        /\ \A i \in 1..(from - 1) : r[i] = c[i]
        /\ \A i \in from..Len(r) : r[i] = c[i + (to - from + 1)]
    <3>1. /\ Cut(c, from, to) \in Seq(T)
          /\ Len(Cut(c, from, to)) = Len(c) - (to - from + 1)
          /\ \A i \in 1..(from - 1) : Cut(c, from, to)[i] = c[i]
          /\ \A i \in from..Len(Cut(c, from, to)) : Cut(c, from, to)[i] = c[i + (to - from + 1)]
      BY <2>5, CutProperties
    <3> QED
      BY <2>4, <3>1
  <2>8. DOMAIN r = 1..Len(r) /\ Len(r) \in Nat
    BY <2>7, LenProperties
  <2> DEFINE Was(i) == IF i < from THEN i ELSE i + k
  <2>9. \A i \in DOMAIN r : Was(i) \in DOMAIN c /\ r[i] = c[Was(i)] /\ Was(i) # at
    <3> TAKE i \in DOMAIN r
    <3>1. CASE i < from
      <4>1. i \in 1..(from - 1) /\ i \in DOMAIN c /\ i # at
        BY <2>2, <2>5, <2>8, <3>1
      <4> QED
        BY <2>7, <3>1, <4>1
    <3>2. CASE ~(i < from)
      <4>1. i \in from..Len(r) /\ i + k \in DOMAIN c /\ i + k # at
        BY <2>2, <2>5, <2>7, <2>8, <3>2
      <4> QED
        BY <2>7, <3>2, <4>1
    <3> QED
      BY <3>1, <3>2
  <2>10. ASSUME NEW token, token # NL, NEW i \in Lines(r, token)
         PROVE  Was(i) \in Lines(c, token)
    <3>1. /\ i \in DOMAIN r /\ r[i] = token
          /\ i > 1 => r[i - 1] = NL
          /\ i < Len(r) => r[i + 1] = NL
      BY DEF Lines
    <3>2. Was(i) \in DOMAIN c /\ c[Was(i)] = token
      BY <2>9, <3>1
    <3>3. Was(i) > 1 => c[Was(i) - 1] = NL
      <4>1. CASE i < from
        <5>1. i > 1 => i - 1 \in DOMAIN r /\ Was(i - 1) = Was(i) - 1
          BY <2>5, <2>8, <3>1, <4>1
        <5> QED
          BY <2>9, <3>1, <4>1, <5>1
      <4>2. CASE i = from
        <5>1. from <= Len(c) - (to - from + 1) /\ Was(i) = from + (to - from + 1)
          BY <2>7, <2>8, <3>1, <4>2
        <5>2. to # Len(c) /\ Was(i) - 1 = to
          <6>1. to # Len(c) /\ (from + (to - from + 1)) - 1 = to
            <7>1. from \in Int /\ to \in Int /\ Len(c) \in Int
              BY <2>2, <2>5
            <7>2. from <= Len(c) - (to - from + 1)
              BY <5>1
            <7> QED
              BY <7>1, <7>2
          <6> HIDE DEF Was
          <6> QED
            BY <5>1, <6>1
        <5> QED
          BY <2>6, <5>2
      <4>3. CASE i > from
        <5>1. i > 1 /\ i - 1 \in DOMAIN r /\ Was(i - 1) = Was(i) - 1
          BY <2>5, <2>8, <3>1, <4>3
        <5> QED
          BY <2>9, <3>1, <5>1
      <4>4. i \in Int
        BY <2>8, <3>1
      <4> QED
        BY <2>5, <4>1, <4>2, <4>3, <4>4
    <3>4. Was(i) < Len(c) => c[Was(i) + 1] = NL
      <4>4. i \in Int
        BY <2>8, <3>1
      <4>1. CASE i + 1 = from
        <5>1. from # 1 /\ Was(i) + 1 = from
          BY <2>5, <2>8, <3>1, <4>1
        <5> QED
          BY <2>6, <5>1
      <4>2. CASE i + 1 < from
        <5>1. i + 1 \in DOMAIN r /\ i < Len(r) /\ Was(i + 1) = Was(i) + 1
          BY <2>2, <2>5, <2>7, <2>8, <3>1, <4>2
        <5> QED
          BY <2>9, <3>1, <5>1
      <4>3. CASE i + 1 > from
        <5>1. Was(i) = i + k
          BY <2>5, <2>8, <3>1, <4>3
        <5>2. i + k < Len(c) => i + 1 \in DOMAIN r /\ i < Len(r)
          <6>1. Len(r) = Len(c) - k
            BY <2>7
          <6> HIDE DEF k
          <6> QED
            BY <2>2, <2>5, <2>8, <3>1, <6>1
        <5>3. Was(i + 1) = (i + 1) + k
          BY <2>5, <2>8, <3>1, <4>3
        <5>4. (i + 1) + k = (i + k) + 1
          <6> HIDE DEF k
          <6> QED
            BY <2>5, <4>4
        <5>5. Was(i) < Len(c) => i + 1 \in DOMAIN r /\ i < Len(r) /\ Was(i + 1) = Was(i) + 1
          BY <5>1, <5>2, <5>3, <5>4
        <5> QED
          BY <2>9, <3>1, <5>5
      <4> QED
        BY <2>5, <4>1, <4>2, <4>3, <4>4
    <3> QED
      BY <3>2, <3>3, <3>4 DEF Lines
  <2>11. \A i, j \in DOMAIN r : Was(i) = Was(j) => i = j
    BY <2>5, <2>8
  <2>12. \A token, i : i \in Lines(r, token) => i \in DOMAIN r
    BY DEF Lines
  <2> HIDE DEF Was
  <2>13. ~Imports(r, target)
    BY <2>1, <2>9, <2>10, <2>12, Kinds DEF Imports
  <2>14. \A t : Imports(r, t) => Imports(c, t)
    BY <2>10, Kinds DEF Imports
  <2>15. ASSUME NEW t, ImportPossible(c, t)
         PROVE  ImportPossible(r, t)
    <3> SUFFICES ASSUME NEW i \in Lines(r, ImportOf(t)), NEW j \in Lines(r, ImportOf(t))
                 PROVE  i = j
      BY DEF ImportPossible
    <3>1. Was(i) \in Lines(c, ImportOf(t)) /\ Was(j) \in Lines(c, ImportOf(t))
      BY <2>10, Kinds
    <3>2. Was(i) = Was(j)
      BY <2>15, <3>1 DEF ImportPossible
    <3> QED
      BY <2>11, <2>12, <3>2
  <2> QED
    BY <2>7, <2>9, <2>13, <2>14, <2>15
<1> QED
  BY <1>1, <1>2

-----------------------------------------------------------------------------
(* The tokens that are no bridges.                                         *)

\* The order of the natural numbers.
Smaller == {pair \in Nat \X Nat : pair[1] < pair[2]}

\* Induction over the natural numbers, for a set of them.
LEMMA CountUp ==
    ASSUME NEW S, 0 \in S, \A n \in Nat : n \in S => n + 1 \in S
    PROVE  Nat \subseteq S
<1> DEFINE rest == Nat \ S
<1> SUFFICES ASSUME rest # {}
             PROVE  FALSE
  OBVIOUS
<1>1. IsWellFoundedOn(Smaller, Nat)
  BY NatLessThanWellFounded DEF OpToRel, Smaller
<1>2. rest \subseteq Nat
  OBVIOUS
<1>3. PICK n \in rest : \A m \in rest : ~(<<m, n>> \in Smaller)
  <2> HIDE DEF rest
  <2> QED
    BY <1>1, <1>2, WFMin
<1>4. n # 0 /\ n - 1 \in Nat /\ (n - 1) + 1 = n
  OBVIOUS
<1>5. n - 1 \notin rest
  <2>1. <<n - 1, n>> \in Smaller
    BY <1>4 DEF Smaller
  <2> QED
    BY <1>3, <2>1
<1> QED
  BY <1>3, <1>4, <1>5

\* A content without a line break at its end has only tokens that were there.
LEMMA UndelimitedProperties ==
    ASSUME NEW T, NEW c \in Seq(T), \A j \in DOMAIN c : ~IsBridge(c[j])
    PROVE  /\ Undelimited(c) \in Seq(T)
           /\ \A j \in DOMAIN Undelimited(c) : ~IsBridge(Undelimited(c)[j])
<1>1. CASE Undelimited(c) = c
  BY <1>1
<1>2. CASE Undelimited(c) # c
  <2>1. Undelimited(c) = SubSeq(c, 1, Len(c) - 1) /\ c # <<>>
    BY <1>2 DEF Undelimited
  <2>2. Len(c) \in Nat /\ Len(c) > 0 /\ DOMAIN c = 1..Len(c) /\ \A i \in 1..Len(c) : c[i] \in T
    BY <2>1, LenProperties, ElementOfSeq, EmptySeq
  <2>3. PICK d : d = SubSeq(c, 1, Len(c) - 1)
    OBVIOUS
  <2>4. \A i \in 1..(Len(c) - 1) : c[i] \in T
    BY <2>2
  <2>5. /\ d \in Seq(T) /\ Len(d) = IF 1 <= Len(c) - 1 THEN (Len(c) - 1) - 1 + 1 ELSE 0
        /\ \A i \in 1..((Len(c) - 1) - 1 + 1) : d[i] = c[1 + i - 1]
    BY <2>2, <2>3, <2>4, SubSeqProperties
  <2>6. Len(d) = Len(c) - 1
    <3>1. Len(c) \in Nat /\ Len(c) > 0
      BY <2>2
    <3>2. Len(d) = IF 1 <= Len(c) - 1 THEN (Len(c) - 1) - 1 + 1 ELSE 0
      BY <2>5
    <3> QED
      <4>1. CASE Len(c) = 1
        BY <3>2, <4>1
      <4>2. CASE Len(c) # 1
        <5>1. 1 <= Len(c) - 1
          <6>1. \A n \in Nat : n > 0 /\ n # 1 => 1 <= n - 1
            OBVIOUS
          <6> QED
            BY <3>1, <4>2, <6>1
        <5> QED
          BY <3>1, <3>2, <5>1
      <4> QED
        BY <4>1, <4>2
  <2>7. DOMAIN d = 1..Len(d)
    BY <2>5, LenProperties
  <2>8. \A j \in DOMAIN d : j \in DOMAIN c /\ d[j] = c[j]
    <3> TAKE j \in DOMAIN d
    <3>1. j \in 1..(Len(c) - 1)
      BY <2>6, <2>7
    <3>2. j \in 1..Len(c) /\ j \in 1..((Len(c) - 1) - 1 + 1) /\ 1 + j - 1 = j
      BY <2>2, <3>1
    <3>3. d[j] = c[1 + j - 1]
      BY <2>5, <3>2
    <3> QED
      BY <2>2, <3>2, <3>3
  <2> QED
    BY <2>1, <2>3, <2>5, <2>8
<1> QED
  BY <1>1, <1>2

\* What is left without the bridges are tokens that were there, and no bridges.
LEMMA StrippedProperties ==
    ASSUME NEW T, NEW c \in Seq(T)
    PROVE  /\ Stripped(c) \in Seq(T)
           /\ \A j \in DOMAIN Stripped(c) : ~IsBridge(Stripped(c)[j])
<1> DEFINE next(was, i) == IF IsBridge(c[i]) THEN Undelimited(was) ELSE Append(was, c[i])
           IsKept(f, n) == f = [i \in 0..n |-> IF i = 0 THEN <<>>
                                               ELSE IF IsBridge(c[i]) THEN Undelimited(f[i - 1])
                                               ELSE Append(f[i - 1], c[i])]
           Kept == CHOOSE f : IsKept(f, Len(c))
<1>1. Stripped(c) = Kept[Len(c)]
  BY Zenon DEF Stripped
<1>2. Len(c) \in Nat /\ \A i \in 1..Len(c) : c[i] \in T
  BY LenProperties, ElementOfSeq
<1>3. \A n \in Nat : \E f : IsKept(f, n)
  <2> DEFINE S == {n \in Nat : \E f : IsKept(f, n)}
  <2>1. 0 \in S
    <3> DEFINE f == [i \in 0..0 |-> <<>>]
    <3>1. f = [i \in 0..0 |-> IF i = 0 THEN <<>> ELSE IF IsBridge(c[i]) THEN Undelimited(f[i - 1])
                              ELSE Append(f[i - 1], c[i])]
      OBVIOUS
    <3>2. IsKept(f, 0)
      BY <3>1
    <3> QED
      BY <3>2
  <2>2. ASSUME NEW n \in Nat, n \in S
        PROVE  n + 1 \in S
    <3>1. PICK f : IsKept(f, n)
      BY <2>2
    <3> DEFINE g == [i \in 0..(n + 1) |-> IF i = n + 1 THEN next(f[n], n + 1) ELSE f[i]]
    <3>2. \A i \in 0..n : g[i] = f[i]
      OBVIOUS
    <3>3. \A i \in 0..(n + 1) :
                    g[i] = IF i = 0 THEN <<>>
                           ELSE IF IsBridge(c[i]) THEN Undelimited(g[i - 1])
                           ELSE Append(g[i - 1], c[i])
      <4> TAKE i \in 0..(n + 1)
      <4>1. CASE i = n + 1
        <5>1. g[i] = next(f[n], i) /\ i - 1 = n /\ i # 0 /\ n \in 0..n
          BY <4>1
        <5>2. g[i - 1] = f[n]
          BY <3>2, <5>1
        <5> HIDE DEF g
        <5> QED
          BY <5>1, <5>2
      <4>2. CASE i # n + 1
        <5>1. i \in 0..n /\ (i # 0 => i - 1 \in 0..n)
          BY <4>2
        <5>2. g[i] = f[i] /\ (i # 0 => g[i - 1] = f[i - 1])
          BY <3>2, <5>1
        <5>3. f[i] = IF i = 0 THEN <<>> ELSE IF IsBridge(c[i]) THEN Undelimited(f[i - 1])
                     ELSE Append(f[i - 1], c[i])
          BY <3>1, <5>1
        <5> HIDE DEF g
        <5> QED
          BY <5>2, <5>3
      <4> QED
        BY <4>1, <4>2
    <3>4. IsKept(g, n + 1)
      <4>1. g = [i \in 0..(n + 1) |-> g[i]]
        OBVIOUS
      <4> HIDE DEF g
      <4> QED
        BY <3>3, <4>1
    <3> HIDE DEF IsKept, g
    <3> QED
      BY <3>4
  <2> HIDE DEF IsKept
  <2>3. Nat \subseteq S
    <3> HIDE DEF S
    <3> QED
      BY <2>1, <2>2, CountUp
  <2> QED
    BY <2>3
<1>4. IsKept(Kept, Len(c))
  <2> HIDE DEF IsKept
  <2> QED
    BY <1>2, <1>3
<1> HIDE DEF Kept
<1>5. \A i \in 0..Len(c) :
                Kept[i] = IF i = 0 THEN <<>>
                          ELSE IF IsBridge(c[i]) THEN Undelimited(Kept[i - 1])
                          ELSE Append(Kept[i - 1], c[i])
  BY <1>4
<1> DEFINE Good(s) == s \in Seq(T) /\ \A j \in DOMAIN s : ~IsBridge(s[j])
           G == {i \in Nat : i <= Len(c) => Good(Kept[i])}
<1>6. 0 \in G
  <2>1. Kept[0] = <<>>
    BY <1>2, <1>5
  <2>2. <<>> \in Seq(T) /\ DOMAIN <<>> = {}
    OBVIOUS
  <2> QED
    BY <2>1, <2>2
<1>7. ASSUME NEW n \in Nat, n \in G
      PROVE  n + 1 \in G
  <2> SUFFICES ASSUME n + 1 <= Len(c)
               PROVE  Good(Kept[n + 1])
    OBVIOUS
  <2>1. Good(Kept[n])
    BY <1>2, <1>7
  <2>2. Kept[n + 1] = IF IsBridge(c[n + 1]) THEN Undelimited(Kept[n]) ELSE Append(Kept[n], c[n + 1])
    <3>1. n + 1 \in 0..Len(c) /\ n + 1 # 0 /\ (n + 1) - 1 = n
      BY <1>2
    <3> QED
      BY <1>5, <3>1
  <2>3. CASE IsBridge(c[n + 1])
    <3>1. PICK s : s = Kept[n]
      OBVIOUS
    <3>2. s \in Seq(T) /\ \A j \in DOMAIN s : ~IsBridge(s[j])
      BY <2>1, <3>1
    <3>3. Undelimited(s) \in Seq(T) /\ \A j \in DOMAIN Undelimited(s) : ~IsBridge(Undelimited(s)[j])
      BY <3>2, UndelimitedProperties
    <3> QED
      BY <2>2, <2>3, <3>1, <3>3
  <2>4. CASE ~IsBridge(c[n + 1])
    <3> DEFINE s == Kept[n]
               e == c[n + 1]
    <3>1. e \in T
      BY <1>2
    <3> HIDE DEF s, e
    <3>2. s \in Seq(T) /\ \A j \in DOMAIN s : ~IsBridge(s[j])
      BY <2>1 DEF s
    <3>3. Len(s) \in Nat /\ DOMAIN s = 1..Len(s)
      BY <3>2, LenProperties
    <3>4. /\ Append(s, e) \in Seq(T) /\ Len(Append(s, e)) = Len(s) + 1
          /\ \A i \in 1..Len(s) : Append(s, e)[i] = s[i]
          /\ Append(s, e)[Len(s) + 1] = e
      BY <3>1, <3>2, AppendProperties
    <3>5. DOMAIN Append(s, e) = 1..(Len(s) + 1)
      BY <3>4, LenProperties
    <3>6. \A j \in 1..(Len(s) + 1) : j \in 1..Len(s) \/ j = Len(s) + 1
      BY <3>3
    <3>7. \A j \in DOMAIN Append(s, e) : ~IsBridge(Append(s, e)[j])
      BY <2>4, <3>2, <3>3, <3>4, <3>5, <3>6 DEF e
    <3>8. Kept[n + 1] = Append(s, e)
      BY <2>2, <2>4 DEF s, e
    <3> QED
      BY <3>4, <3>7, <3>8
  <2> QED
    BY <2>3, <2>4
<1>8. Nat \subseteq G
  <2> HIDE DEF G
  <2> QED
    BY <1>6, <1>7, CountUp
<1> QED
  BY <1>1, <1>2, <1>8

-----------------------------------------------------------------------------
(* The invariant of the adapters, and what a command owes to each file.    *)

\* What an import may name.
Targets == {Agents, Instructions}

\* The content of a file, as Content has it of the file at a path.
FileContent(file) == IF file = MISSING THEN <<>> ELSE file

\* The artifact counts this import as its own.
Owns(a, t) == a # NULL /\ \E i \in DOMAIN a.imports : a.imports[i] = t

\* An artifact is registered where its providers look, in the form they read there.
ProperArtifact(p, a) ==
    a # NULL =>
        /\ a \in Artifacts
        /\ a.mode = IF p = Claude THEN "IMPORT" ELSE "MANAGED_BLOCK"
        /\ \A id \in a.consumers : p \in Candidates(id)
        /\ a.imports \in IF p = Claude
                         THEN {<<>>, <<Instructions>>, <<Agents, Instructions>>} ELSE {<<>>}

\* A file has the bridges of its artifact, or none: CLAUDE.md every import at most
\* once, any other file at most the one block that is registered.
ProperBridges(p, c, a) ==
    IF p = Claude
    THEN /\ Blocks(c) = {}
         /\ \A t \in Targets :
               /\ ImportPossible(c, t)
               /\ Imports(c, t) => Owns(a, t) \/ (original[p] = ByHand /\ t = Instructions)
    ELSE /\ Places(c, "import") = {}
         /\ \A i \in Blocks(c) : Blocks(c) = {i} /\ a # NULL /\ c[i] = Block(p, a.consumers)
         /\ Delimited(c)

\* What commands alone make of a file.
Pristine(p, file, a) ==
    LET was == FileContent(original[p])  c == FileContent(file) IN
    IF a = NULL THEN file = original[p] \/ (original[p] = <<>> /\ file = MISSING)
    ELSE /\ a.created <=> was = <<>>
         /\ a.sum = c
         /\ p # Claude => c = Appended(was, Block(p, a.consumers))
         /\ p = Claude /\ was # <<>> =>
               \/ file = original[p] /\ a.imports = <<>>
               \/ /\ ~Imports(was, Instructions) /\ a.imports = <<Instructions>>
                  /\ c = Appended(was, ImportOf(Instructions))

\* A file and its registration, of which edits by hand spoil only the last part.
ProperFile(p, file, a) ==
    /\ file \in NativeContents \cup {MISSING}
    /\ ProperArtifact(p, a)
    /\ ProperBridges(p, FileContent(file), a)
    /\ edits = 0 => Pristine(p, file, a)

\* What a native file is before UAWP.
Originals == {MISSING, <<>>, <<Line(0)>>, ByHand}

\* The inductive invariant of the adapters.
AdaptersInv ==
    /\ files \in [Paths -> NativeContents \cup {MISSING}]
    /\ integrations \in [Paths -> Artifacts \cup {NULL}]
    /\ ValidManifest(integrations)
    /\ original \in [Paths -> Originals]
    /\ \A p \in Paths : original[p] = ByHand => p = Claude
    /\ edits \in 0..MaxEdits
    /\ \A p \in Paths : ProperFile(p, files[p], integrations[p])

\* Verified, of a content and an artifact of its own.
VerifiedAs(p, c, a) ==
    IF a.mode = "MANAGED_BLOCK" THEN RemovePossible(c, Block(p, a.consumers))
    ELSE ImportPossible(c, Instructions) /\ Imports(c, Instructions)

\* What a command may make of a file and of its registration.
Kept(p, file, a) ==
    /\ ProperFile(p, file, a)
    /\ a # NULL /\ (p \in Registered => Verified(p)) => VerifiedAs(p, FileContent(file), a)
    /\ p # Claude =>
          \/ UserPart(FileContent(file), a) = UserContent(p)
          \/ /\ file = MISSING /\ p \in Registered
             /\ integrations[p].created /\ Content(p) = integrations[p].sum
          \/ /\ p \in Registered /\ integrations[p].outside = <<>>
             /\ BreakBefore(Content(p))
             /\ UserPart(FileContent(file), a) = Outside(Content(p))

\* Bridges are made of tokens.
LEMMA TokensOfBridges ==
    /\ NL \in Tokens
    /\ \A n \in 0..MaxEdits : Line(n) \in Tokens
    /\ \A t \in Targets : ImportOf(t) \in Tokens
    /\ \A p \in Paths, cs \in SUBSET Providers : Block(p, cs) \in Tokens
<1>1. NL \in Tokens
  <2> DEFINE Typed == {Line(n) : n \in 0..MaxEdits}
             Imported == {ImportOf(t) : t \in {Agents, Instructions}}
             Managed == {BlockOf(ArtifactID(p), c) : p \in Paths, c \in SUBSET Providers}
  <2>1. Tokens = {NL} \cup Typed \cup Imported \cup Managed
    BY DEF Tokens
  <2> HIDE DEF Typed, Imported, Managed
  <2> QED
    BY <2>1
<1>2. ASSUME NEW n \in 0..MaxEdits
      PROVE  Line(n) \in Tokens
  BY SMT DEF Tokens
<1>3. \A t \in Targets : ImportOf(t) \in Tokens
  BY DEF Tokens, Targets
<1>4. \A p \in Paths, cs \in SUBSET Providers : BlockOf(ArtifactID(p), cs) \in Tokens
  BY DEF Tokens
<1> QED
  BY <1>1, <1>3, <1>4, <1>2 DEF Block

\* The content of a file, and of what is written into it.
LEMMA ContentIsProper ==
    ASSUME AdaptersInv, NEW p \in Paths
    PROVE  /\ Content(p) \in NativeContents
           /\ Content(p) = FileContent(files[p])
           /\ integrations[p] = NULL \/ integrations[p] \in Artifacts
           /\ p \in Registered <=> integrations[p] # NULL
           /\ ProperFile(p, files[p], integrations[p])
           /\ original[p] \in Originals
<1>1. <<>> \in NativeContents
  BY DEF NativeContents
<1> QED
  BY <1>1 DEF AdaptersInv, Content, FileContent, Registered

\* A file that is written has the content it is to have; one whose content is the
\* same is not written.
LEMMA WrittenContent ==
    ASSUME AdaptersInv, NEW p \in Paths, NEW after \in NativeContents
    PROVE  /\ Written(p, after) \in NativeContents \cup {MISSING}
           /\ FileContent(Written(p, after)) = after
           /\ Written(p, after) = MISSING => after = <<>>
           /\ after # Content(p) => Written(p, after) = after
           /\ after = Content(p) => Written(p, after) = files[p]
<1>1. files[p] \in NativeContents \cup {MISSING}
  BY DEF AdaptersInv
<1> QED
  BY <1>1, MarkersAssumption DEF Written, FileContent, Content

\* A file of UAWP's own that has become empty is deleted.
LEMMA EmptiedContent ==
    ASSUME AdaptersInv, NEW p \in Paths, NEW after \in NativeContents
    PROVE  /\ Emptied(p, after) \in NativeContents \cup {MISSING}
           /\ FileContent(Emptied(p, after)) = after
           /\ after = <<>> /\ integrations[p].created => Emptied(p, after) = MISSING
           /\ ~(after = <<>> /\ integrations[p].created) => Emptied(p, after) = Written(p, after)
BY WrittenContent DEF Emptied, FileContent

\* A block put into a file that has none.
LEMMA Upserted ==
    ASSUME NEW p \in Paths, NEW cs \in SUBSET Providers, NEW c \in NativeContents, Blocks(c) = {}
    PROVE  LET u == UpsertManagedBlock(c, Block(p, cs)) IN
           /\ u = Appended(c, Block(p, cs))
           /\ u \in NativeContents /\ u # <<>>
           /\ RemovePossible(u, Block(p, cs))
           /\ \A i \in Blocks(u) : Blocks(u) = {i} /\ u[i] = Block(p, cs)
           /\ Delimited(u)
           /\ Places(c, "import") = {} => Places(u, "import") = {}
           /\ Outside(u) = c /\ RemoveManagedBlock(u) = c
           /\ \A a : a # NULL /\ a.outside = c => UserPart(u, a) = c
<1> DEFINE b == Block(p, cs)
           u == Appended(c, b)
<1>1. b \in Tokens /\ NL \in Tokens /\ c \in Seq(Tokens)
  BY TokensOfBridges DEF NativeContents
<1>2. b.kind = "block" /\ "block" # "newline" /\ "import" # "newline" /\ "block" # "import"
  BY Kinds DEF Block
<1> HIDE DEF b
<1>3. /\ u \in Seq(Tokens)
      /\ c = <<>> => u = <<b>>
      /\ c # <<>> => Len(u) = Len(c) + 2
      /\ c # <<>> => \A i \in 1..Len(c) : u[i] = c[i]
      /\ c # <<>> => u[Len(c) + 1] = NL
      /\ u[Len(u)] = b
  BY <1>1, AppendedProperties
<1>4. Blocks(u) = {Len(u)} /\ Len(u) \in DOMAIN u /\ u # <<>>
  BY <1>1, <1>2, PlacesOfAppended DEF Blocks
<1>5. Places(c, "import") = {} => Places(u, "import") = {}
  BY <1>1, <1>2, PlacesOfAppended
<1>6. RemoveManagedBlock(u) = c /\ Outside(u) = c
  BY <1>1, <1>2, RemoveOfAppended
<1>7. UpsertManagedBlock(c, b) = u
  BY DEF UpsertManagedBlock
<1>8. RemovePossible(u, b)
  BY <1>3, <1>4 DEF RemovePossible
<1>9. (\A i \in Blocks(u) : Blocks(u) = {i} /\ u[i] = b) /\ Delimited(u)
  <2>1. Len(u) > 1 => u[Len(u) - 1] = NL
    <3>1. CASE c = <<>>
      <4>1. Len(u) = 1
        BY <1>3, <3>1
      <4> QED
        BY <4>1
    <3>2. CASE c # <<>>
      <4>1. Len(c) \in Nat
        BY <1>1, LenProperties
      <4>2. Len(u) - 1 = Len(c) + 1
        BY <1>3, <3>2, <4>1
      <4> QED
        BY <1>3, <3>2, <4>2
    <3> QED
      BY <3>1, <3>2
  <2> QED
    BY <1>3, <1>4, <2>1 DEF Delimited
<1>10. u \in NativeContents
  BY <1>3 DEF NativeContents
<1>11. \A a : a # NULL /\ a.outside = c => UserPart(u, a) = c
  BY <1>1, <1>2, UserPartOfAppended
<1> HIDE DEF u
<1>12. UpsertManagedBlock(c, Block(p, cs)) = u /\ u = Appended(c, Block(p, cs))
  BY <1>7 DEF u, b
<1> QED
  BY <1>4, <1>5, <1>6, <1>8, <1>9, <1>10, <1>11, <1>12 DEF b

\* The block of a file taken out of it.
LEMMA Removed ==
    ASSUME NEW c \in NativeContents, NEW b, RemovePossible(c, b)
    PROVE  LET r == RemoveManagedBlock(c) IN
           /\ r \in NativeContents
           /\ Blocks(r) = {}
           /\ Places(c, "import") = {} => Places(r, "import") = {}
           /\ Outside(c) = r /\ Outside(r) = r
<1>1. PICK i \in Blocks(c) : Blocks(c) = {i}
  BY DEF RemovePossible
<1>2. i \in DOMAIN c /\ c \in Seq(Tokens)
  BY <1>1 DEF Blocks, Places, NativeContents
<1>3. /\ RemoveManagedBlock(c) \in Seq(Tokens)
      /\ Blocks(RemoveManagedBlock(c)) = {}
      /\ Places(c, "import") = {} => Places(RemoveManagedBlock(c), "import") = {}
  BY <1>1, <1>2, RemoveManagedBlockProperties
<1> QED
  BY <1>1, <1>3 DEF Outside, NativeContents

\* What is left of a registered file without its block.
LEMMA RemovedInProper ==
    ASSUME AdaptersInv, NEW p \in Registered, p # Claude,
           RemovePossible(Content(p), Block(p, Consumers(p)))
    PROVE  /\ Rest(p) \in NativeContents /\ Blocks(Rest(p)) = {}
           /\ Places(Rest(p), "import") = {}
           /\ Outside(Content(p)) = Rest(p) /\ Outside(Rest(p)) = Rest(p)
<1>1. p \in Paths
  BY DEF Registered
<1>2. Content(p) \in NativeContents /\ Places(Content(p), "import") = {}
  BY <1>1, ContentIsProper DEF ProperFile, ProperBridges
<1> QED
  BY <1>2, Removed DEF Rest

\* It is the user's, but for a line break he may have put before the block.
LEMMA RestIsUsers ==
    ASSUME AdaptersInv, NEW p \in Registered, p # Claude,
           RemovePossible(Content(p), Block(p, Consumers(p)))
    PROVE  \/ Rest(p) = UserContent(p)
           \/ /\ integrations[p].outside = <<>> /\ BreakBefore(Content(p))
              /\ Rest(p) = Outside(Content(p))
<1>1. PICK c : c = Content(p)
  OBVIOUS
<1>2. p \in Paths /\ integrations[p] # NULL
  BY DEF Registered
<1>3. PICK i \in Blocks(c) : Blocks(c) = {i}
  BY <1>1 DEF RemovePossible
<1>4. c \in NativeContents /\ (i > 1 => c[i - 1] = NL)
  <2>1. c \in NativeContents /\ Delimited(c)
    BY <1>1, <1>2, ContentIsProper DEF ProperFile, ProperBridges
  <2> QED
    BY <1>3, <2>1 DEF Delimited
<1>5. i \in Nat \ {0}
  <2>1. i \in DOMAIN c /\ c \in Seq(Tokens)
    BY <1>3, <1>4 DEF Blocks, Places, NativeContents
  <2>2. DOMAIN c = 1..Len(c) /\ Len(c) \in Nat
    BY <2>1, LenProperties
  <2> QED
    BY <2>1, <2>2
<1>6. \/ RemoveManagedBlock(c) = UserPart(c, integrations[p])
      \/ integrations[p].outside = <<>> /\ BreakBefore(c)
  BY <1>2, <1>3, <1>4, <1>5, UserPartOrBreak
<1> QED
  BY <1>1, <1>6, RemovedInProper DEF Rest, UserContent

-----------------------------------------------------------------------------
(* Files before UAWP, and imports taken out of a file one by one.          *)

\* What was there before UAWP has no bridge but the one a user wrote himself.
LEMMA OriginalContent ==
    ASSUME NEW o \in Originals
    PROVE  /\ FileContent(o) \in NativeContents
           /\ Blocks(FileContent(o)) = {}
           /\ o # ByHand => Places(FileContent(o), "import") = {}
           /\ FileContent(o) = <<>> => o \in {MISSING, <<>>}
           /\ FileContent(o) # <<>> => FileContent(o) = o
<1>1. /\ Line(0) \in Tokens /\ NL \in Tokens /\ ImportOf(Instructions) \in Tokens
      /\ Line(0).kind = "line" /\ NL.kind = "newline" /\ ImportOf(Instructions).kind = "import"
  <2>1. 0 \in 0..MaxEdits
    BY EditsAreBounded
  <2> QED
    BY <2>1, TokensOfBridges, Kinds DEF Targets
<1>2. <<>> \in NativeContents /\ <<Line(0)>> \in NativeContents /\ ByHand \in NativeContents
  BY <1>1 DEF NativeContents, ByHand
<1>3. CASE o \in {MISSING, <<>>}
  <2>1. FileContent(o) = <<>>
    BY <1>3 DEF FileContent
  <2>2. DOMAIN <<>> = {}
    OBVIOUS
  <2> QED
    BY <1>2, <1>3, <2>1, <2>2 DEF Blocks, Places
<1>4. CASE o = <<Line(0)>>
  <2>1. FileContent(o) = o
    BY <1>2, <1>4, MarkersAssumption DEF FileContent
  <2>2. DOMAIN o = {1} /\ o[1] = Line(0) /\ o # <<>>
    BY <1>4
  <2> QED
    BY <1>1, <1>2, <1>4, <2>1, <2>2 DEF Blocks, Places
<1>5. CASE o = ByHand
  <2>1. FileContent(o) = o
    BY <1>2, <1>5, MarkersAssumption DEF FileContent
  <2> DEFINE line == Line(0)  newline == NL  import == ImportOf(Instructions)
  <2>2. o = <<line, newline, import>>
    BY <1>5 DEF ByHand
  <2>3. line.kind # "block" /\ newline.kind # "block" /\ import.kind # "block"
    BY <1>1
  <2> HIDE DEF line, newline, import
  <2>4. DOMAIN o = {1, 2, 3} /\ o[1] = line /\ o[2] = newline /\ o[3] = import /\ o # <<>>
    BY <2>2
  <2>5. \A i \in DOMAIN o : o[i].kind # "block"
    BY <2>3, <2>4
  <2> QED
    BY <1>2, <1>5, <2>1, <2>4, <2>5 DEF Blocks, Places
<1> QED
  BY <1>3, <1>4, <1>5 DEF Originals

\* An import that was appended goes without a trace.
LEMMA RemoveImportOfAppended ==
    ASSUME NEW c \in NativeContents, NEW t \in Targets, ~Imports(c, t)
    PROVE  /\ Imports(Appended(c, ImportOf(t)), t)
           /\ RemoveImport(Appended(c, ImportOf(t)), t) = c
<1> DEFINE x == ImportOf(t)
<1>1. x \in Tokens /\ NL \in Tokens /\ c \in Seq(Tokens) /\ x # NL
  BY TokensOfBridges, Kinds DEF NativeContents
<1>2. Lines(c, x) = {}
  BY DEF Imports
<1> HIDE DEF x
<1>3. Lines(Appended(c, x), x) = {Len(Appended(c, x))}
  BY <1>1, <1>2, LinesOfAppended
<1> DEFINE d == Appended(c, x)
<1>4. Lines(d, x) = {Len(d)}
  BY <1>3
<1>5. d = Appended(c, x)
  OBVIOUS
<1> HIDE DEF d
<1>6. Imports(d, t)
  BY <1>4 DEF Imports, x
<1>7. RemoveImport(d, t) = Cut(d, IF Len(d) = 1 THEN 1 ELSE Len(d) - 1, Len(d))
  BY <1>4, <1>6, OnlyMember DEF RemoveImport, x
<1>8. RemoveImport(d, t) = c
  BY <1>1, <1>5, <1>7, CutOfAppended
<1> QED
  BY <1>5, <1>6, <1>8 DEF x

\* The imports of an artifact are taken out one after the other.
LEMMA WithoutImportsUnfolds ==
    ASSUME NEW a, NEW c
    PROVE  /\ a.imports = <<>> => WithoutImports(a, c) = c
           /\ \A t : a.imports = <<t>> => WithoutImports(a, c) = RemoveImport(c, t)
           /\ \A t, u : a.imports = <<t, u>> =>
                 WithoutImports(a, c) = RemoveImport(RemoveImport(c, t), u)
<1> DEFINE n == Len(a.imports)
           IsStrip(f) == f = [i \in 0..n |->
              IF i = 0 THEN c ELSE RemoveImport(f[i - 1], a.imports[i])]
           Strip == CHOOSE f : IsStrip(f)
<1>1. WithoutImports(a, c) = Strip[n]
  BY Zenon DEF WithoutImports
<1> DEFINE one == RemoveImport(c, a.imports[1])
           two == RemoveImport(one, a.imports[2])
           f == [i \in 0..n |-> IF i = 0 THEN c ELSE IF i = 1 THEN one ELSE two]
<1>2. ASSUME n \in {0, 1, 2}
      PROVE  IsStrip(Strip)
  <2>1. \A i \in 0..n : f[i] = IF i = 0 THEN c ELSE RemoveImport(f[i - 1], a.imports[i])
    <3> TAKE i \in 0..n
    <3>1. i \in {0, 1, 2} /\ (i # 0 => i - 1 \in 0..n)
      <4> HIDE DEF n
      <4> QED
        BY <1>2
    <3>2. CASE i = 0
      BY <3>2
    <3>3. CASE i = 1
      <4>1. f[i] = one /\ f[i - 1] = c
        BY <3>1, <3>3
      <4> HIDE DEF f
      <4> QED
        BY <3>3, <4>1
    <3>4. CASE i = 2
      <4>1. f[i] = two /\ f[i - 1] = one
        BY <3>1, <3>4
      <4> HIDE DEF f
      <4> QED
        BY <3>4, <4>1
    <3> QED
      BY <3>1, <3>2, <3>3, <3>4
  <2>2. f = [i \in 0..n |-> f[i]]
    OBVIOUS
  <2> HIDE DEF f
  <2>3. IsStrip(f)
    BY <2>1, <2>2
  <2> HIDE DEF IsStrip
  <2> QED
    BY <2>3
<1> HIDE DEF Strip
<1>3. ASSUME n \in {0, 1, 2}, NEW i \in 0..n
      PROVE  Strip[i] = IF i = 0 THEN c ELSE RemoveImport(Strip[i - 1], a.imports[i])
  BY <1>2, <1>3
<1>4. n = 0 => Strip[n] = c
  BY <1>3
<1>5. n = 1 => Strip[n] = RemoveImport(c, a.imports[1])
  <2> SUFFICES ASSUME n = 1 PROVE Strip[1] = RemoveImport(c, a.imports[1])
    OBVIOUS
  <2>1. Strip[0] = c
    BY <1>3
  <2>2. Strip[1] = RemoveImport(Strip[1 - 1], a.imports[1])
    BY <1>3
  <2> QED
    BY <2>1, <2>2
<1>6. n = 2 => Strip[n] = RemoveImport(RemoveImport(c, a.imports[1]), a.imports[2])
  <2> SUFFICES ASSUME n = 2
               PROVE  Strip[2] = RemoveImport(RemoveImport(c, a.imports[1]), a.imports[2])
    OBVIOUS
  <2>1. Strip[0] = c
    BY <1>3
  <2>2. Strip[1] = RemoveImport(Strip[1 - 1], a.imports[1])
    BY <1>3
  <2>3. Strip[2] = RemoveImport(Strip[2 - 1], a.imports[2])
    BY <1>3
  <2> QED
    BY <2>1, <2>2, <2>3
<1>7. a.imports = <<>> => n = 0
  OBVIOUS
<1>8. \A t : a.imports = <<t>> => n = 1 /\ a.imports[1] = t
  OBVIOUS
<1>9. \A t, u : a.imports = <<t, u>> => n = 2 /\ a.imports[1] = t /\ a.imports[2] = u
  OBVIOUS
<1> HIDE DEF n
<1> QED
  BY <1>1, <1>4, <1>5, <1>6, <1>7, <1>8, <1>9

-----------------------------------------------------------------------------
(* What is left of a registered file when its bridges are taken away.      *)

\* What a registered artifact is, spelled out.
LEMMA RegisteredArtifact ==
    ASSUME AdaptersInv, NEW p \in Registered
    PROVE  /\ p \in Paths /\ integrations[p] # NULL /\ integrations[p] \in Artifacts
           /\ integrations[p].mode = IF p = Claude THEN "IMPORT" ELSE "MANAGED_BLOCK"
           /\ \A id \in Consumers(p) : p \in Candidates(id)
           /\ Consumers(p) \in SUBSET Providers /\ Consumers(p) # {}
           /\ integrations[p].imports \in IF p = Claude
                 THEN {<<>>, <<Instructions>>, <<Agents, Instructions>>} ELSE {<<>>}
           /\ ProperBridges(p, Content(p), integrations[p])
           /\ edits = 0 => Pristine(p, files[p], integrations[p])
<1>1. p \in Paths
  BY DEF Registered
<1>2. /\ Content(p) = FileContent(files[p])
      /\ ProperFile(p, files[p], integrations[p])
      /\ integrations[p] # NULL /\ integrations[p] \in Artifacts
  BY <1>1, ContentIsProper
<1>3. Consumers(p) \in SUBSET Providers /\ Consumers(p) # {}
  BY <1>2 DEF Artifacts, Consumers
<1> QED
  BY <1>1, <1>2, <1>3 DEF ProperFile, ProperArtifact, Consumers

\* The block of a registered file taken away with its last consumer.
LEMMA BareManaged ==
    ASSUME AdaptersInv, NEW p \in Registered, p # Claude,
           \/ integrations[p].created /\ Content(p) = integrations[p].sum
           \/ RemovePossible(Content(p), Block(p, Consumers(p)))
    PROVE  Kept(p, Emptied(p, Bare(p)), NULL)
<1> DEFINE a == integrations[p]
           c == Content(p)
           o == original[p]
           was == FileContent(o)
<1>1. /\ p \in Paths /\ a # NULL /\ a.mode = "MANAGED_BLOCK" /\ c \in NativeContents
      /\ Consumers(p) \in SUBSET Providers /\ a.consumers = Consumers(p)
      /\ Places(c, "import") = {} /\ o \in Originals /\ c = FileContent(files[p])
  BY RegisteredArtifact, ContentIsProper DEF ProperBridges, Consumers
<1>2. Bare(p) = IF a.created /\ c = a.sum THEN <<>> ELSE Rest(p)
  BY <1>1 DEF Bare, Rest
<1>3. RemovePossible(c, Block(p, Consumers(p))) =>
          /\ Rest(p) \in NativeContents /\ Blocks(Rest(p)) = {}
          /\ Places(Rest(p), "import") = {}
          /\ Outside(c) = Rest(p) /\ Outside(Rest(p)) = Rest(p)
  BY RemovedInProper
<1>4. <<>> \in NativeContents /\ DOMAIN <<>> = {}
  BY DEF NativeContents
<1>5. /\ Bare(p) \in NativeContents /\ Blocks(Bare(p)) = {} /\ Places(Bare(p), "import") = {}
  BY <1>2, <1>3, <1>4 DEF Blocks, Places
<1> DEFINE file == Emptied(p, Bare(p))
<1>6. /\ file \in NativeContents \cup {MISSING} /\ FileContent(file) = Bare(p)
      /\ Bare(p) = <<>> /\ a.created => file = MISSING
      /\ ~(Bare(p) = <<>> /\ a.created) => file = Written(p, Bare(p))
  BY <1>1, <1>5, EmptiedContent
<1>7. \/ UserPart(FileContent(file), NULL) = UserContent(p)
      \/ file = MISSING /\ a.created /\ c = a.sum
      \/ /\ a.outside = <<>> /\ BreakBefore(c)
         /\ UserPart(FileContent(file), NULL) = Outside(c)
  <2>1. CASE a.created /\ c = a.sum
    BY <1>2, <1>6, <2>1
  <2>2. CASE ~(a.created /\ c = a.sum)
    <3>1. \/ Rest(p) = UserContent(p)
          \/ a.outside = <<>> /\ BreakBefore(c) /\ Rest(p) = Outside(c)
      BY <2>2, RestIsUsers
    <3>2. UserPart(FileContent(file), NULL) = Rest(p)
      BY <1>2, <1>6, <2>2 DEF UserPart
    <3> QED
      BY <3>1, <3>2
  <2> QED
    BY <2>1, <2>2
<1>8. ASSUME edits = 0
      PROVE  file = o \/ (o = <<>> /\ file = MISSING)
  <2>1. /\ a.created <=> was = <<>>
        /\ a.sum = c
        /\ c = Appended(was, Block(p, Consumers(p)))
    BY <1>1, <1>8, RegisteredArtifact DEF Pristine
  <2>2. /\ was \in NativeContents /\ Blocks(was) = {}
        /\ was = <<>> => o \in {MISSING, <<>>}
        /\ was # <<>> => was = o
    BY <1>1, OriginalContent
  <2>3. CASE a.created
    BY <1>2, <1>6, <2>1, <2>2, <2>3
  <2>4. CASE ~a.created
    <3> DEFINE u == UpsertManagedBlock(was, Block(p, Consumers(p)))
    <3>1. u = Appended(was, Block(p, Consumers(p))) /\ RemovePossible(u, Block(p, Consumers(p)))
          /\ RemoveManagedBlock(u) = was
      BY <1>1, <2>2, Upserted
    <3>2. Bare(p) = was
      BY <1>2, <2>1, <2>4, <3>1 DEF Rest
    <3>3. Blocks(c) # {}
      BY <2>1, <3>1 DEF RemovePossible
    <3>4. was # c /\ was # <<>>
      BY <2>1, <2>2, <2>4, <3>3
    <3>5. Written(p, was) = was
      BY <1>1, <2>2, <3>4, WrittenContent
    <3> QED
      BY <1>6, <2>2, <2>4, <3>2, <3>4, <3>5
  <2> QED
    BY <2>3, <2>4
<1>9. ProperArtifact(p, NULL) /\ ProperBridges(p, FileContent(file), NULL)
  BY <1>5, <1>6 DEF ProperArtifact, ProperBridges, Delimited
<1>10. edits = 0 => Pristine(p, file, NULL)
  BY <1>8 DEF Pristine
<1> HIDE DEF file
<1> QED
  BY <1>6, <1>7, <1>9, <1>10 DEF Kept, ProperFile, file

\* Imports leave no other bridge where they stood.
LEMMA ImportRemoved ==
    ASSUME NEW c \in NativeContents, Blocks(c) = {},
           \A t \in Targets : ImportPossible(c, t), NEW t \in Targets
    PROVE  LET r == RemoveImport(c, t) IN
           /\ r \in NativeContents /\ Blocks(r) = {}
           /\ \A u \in Targets : ImportPossible(r, u) /\ (Imports(r, u) => Imports(c, u))
           /\ ~Imports(r, t)
<1>1. c \in Seq(Tokens) /\ ImportPossible(c, t)
  BY DEF NativeContents
<1>2. PICK r : r = RemoveImport(c, t)
  OBVIOUS
<1>3. /\ r \in Seq(Tokens)
      /\ \A j \in DOMAIN r : \E k \in DOMAIN c : r[j] = c[k]
      /\ ~Imports(r, t)
      /\ \A u : Imports(r, u) => Imports(c, u)
      /\ \A u : ImportPossible(c, u) => ImportPossible(r, u)
  BY <1>1, <1>2, RemoveImportProperties
<1>4. Blocks(r) = {}
  BY <1>3 DEF Blocks, Places
<1> QED
  BY <1>2, <1>3, <1>4 DEF NativeContents

\* Of CLAUDE.md without its imports.
LEMMA WithoutImportsProperties ==
    ASSUME NEW c \in NativeContents, Blocks(c) = {},
           \A t \in Targets : ImportPossible(c, t), NEW a,
           a.imports \in {<<>>, <<Instructions>>, <<Agents, Instructions>>}
    PROVE  LET r == WithoutImports(a, c) IN
           /\ r \in NativeContents /\ Blocks(r) = {}
           /\ \A u \in Targets : ImportPossible(r, u) /\ (Imports(r, u) => Imports(c, u))
           /\ \A i \in DOMAIN a.imports : ~Imports(r, a.imports[i])
<1>1. CASE a.imports = <<>>
  <2>1. WithoutImports(a, c) = c
    BY <1>1, WithoutImportsUnfolds
  <2>2. DOMAIN a.imports = {}
    BY <1>1
  <2> QED
    BY <2>1, <2>2
<1>2. CASE a.imports = <<Instructions>>
  <2>1. WithoutImports(a, c) = RemoveImport(c, Instructions)
    BY <1>2, WithoutImportsUnfolds
  <2>2. DOMAIN a.imports = {1} /\ a.imports[1] = Instructions
    BY <1>2
  <2>3. Instructions \in Targets
    BY DEF Targets
  <2> QED
    BY <2>1, <2>2, <2>3, ImportRemoved
<1>3. CASE a.imports = <<Agents, Instructions>>
  <2>1. PICK s : s = RemoveImport(c, Agents)
    OBVIOUS
  <2>2. PICK r : r = RemoveImport(s, Instructions)
    OBVIOUS
  <2>3. WithoutImports(a, c) = r
    BY <1>3, <2>1, <2>2, WithoutImportsUnfolds
  <2>4. DOMAIN a.imports = {1, 2} /\ a.imports[1] = Agents /\ a.imports[2] = Instructions
    BY <1>3
  <2>5. Instructions \in Targets /\ Agents \in Targets
    BY DEF Targets
  <2>6. /\ s \in NativeContents /\ Blocks(s) = {}
        /\ \A u \in Targets : ImportPossible(s, u) /\ (Imports(s, u) => Imports(c, u))
        /\ ~Imports(s, Agents)
    BY <2>1, <2>5, ImportRemoved
  <2>7. /\ r \in NativeContents /\ Blocks(r) = {}
        /\ \A u \in Targets : ImportPossible(r, u) /\ (Imports(r, u) => Imports(s, u))
        /\ ~Imports(r, Instructions)
    BY <2>2, <2>5, <2>6, ImportRemoved
  <2> QED
    BY <2>3, <2>4, <2>5, <2>6, <2>7
<1> QED
  BY <1>1, <1>2, <1>3

\* The imports of CLAUDE.md taken away.
LEMMA BareImports ==
    ASSUME AdaptersInv, Claude \in Registered
    PROVE  Kept(Claude, Emptied(Claude, Bare(Claude)), NULL)
<1> DEFINE p == Claude
           a == integrations[p]
           c == Content(p)
           o == original[p]
           was == FileContent(o)
<1>1. /\ p \in Paths /\ a # NULL /\ a.mode = "IMPORT" /\ c \in NativeContents
      /\ a.imports \in {<<>>, <<Instructions>>, <<Agents, Instructions>>}
      /\ Blocks(c) = {} /\ o \in Originals /\ c = FileContent(files[p])
      /\ \A t \in Targets : ImportPossible(c, t)
      /\ \A t \in Targets : Imports(c, t) => Owns(a, t) \/ (o = ByHand /\ t = Instructions)
  BY RegisteredArtifact, ContentIsProper DEF ProperBridges
<1>2. Bare(p) = IF a.created /\ c = a.sum THEN <<>> ELSE WithoutImports(a, c)
  BY <1>1 DEF Bare
<1>3. LET r == WithoutImports(a, c) IN
      /\ r \in NativeContents /\ Blocks(r) = {}
      /\ \A u \in Targets : ImportPossible(r, u) /\ (Imports(r, u) => Imports(c, u))
      /\ \A i \in DOMAIN a.imports : ~Imports(r, a.imports[i])
  BY <1>1, WithoutImportsProperties
<1>4. <<>> \in NativeContents /\ DOMAIN <<>> = {}
  BY DEF NativeContents
<1>5. Blocks(<<>>) = {} /\ \A u : ImportPossible(<<>>, u) /\ ~Imports(<<>>, u)
  BY <1>4 DEF Blocks, Places, ImportPossible, Imports, Lines
<1>6. /\ Bare(p) \in NativeContents /\ Blocks(Bare(p)) = {}
      /\ \A u \in Targets : ImportPossible(Bare(p), u) /\ (Imports(Bare(p), u) => Imports(c, u))
      /\ \A i \in DOMAIN a.imports : ~Imports(Bare(p), a.imports[i])
  BY <1>2, <1>3, <1>4, <1>5
<1>7. \A u \in Targets : Imports(Bare(p), u) => o = ByHand /\ u = Instructions
  BY <1>1, <1>6 DEF Owns
<1> DEFINE file == Emptied(p, Bare(p))
<1>8. /\ file \in NativeContents \cup {MISSING} /\ FileContent(file) = Bare(p)
      /\ Bare(p) = <<>> /\ a.created => file = MISSING
      /\ ~(Bare(p) = <<>> /\ a.created) => file = Written(p, Bare(p))
  BY <1>1, <1>6, EmptiedContent
<1>9. ASSUME edits = 0
      PROVE  file = o \/ (o = <<>> /\ file = MISSING)
  <2>1. /\ a.created <=> was = <<>>
        /\ a.sum = c
        /\ was # <<>> => \/ files[p] = o /\ a.imports = <<>>
                         \/ /\ ~Imports(was, Instructions) /\ a.imports = <<Instructions>>
                            /\ c = Appended(was, ImportOf(Instructions))
    BY <1>1, <1>9, RegisteredArtifact DEF Pristine
  <2>2. /\ was \in NativeContents
        /\ was = <<>> => o \in {MISSING, <<>>}
        /\ was # <<>> => was = o
    BY <1>1, OriginalContent
  <2>3. CASE a.created
    BY <1>2, <1>8, <2>1, <2>2, <2>3
  <2>4. CASE ~a.created /\ files[p] = o /\ a.imports = <<>>
    <3>1. Bare(p) = c
      BY <1>2, <2>4, WithoutImportsUnfolds
    <3>2. Written(p, c) = files[p]
      BY DEF Written
    <3> QED
      BY <1>8, <2>4, <3>1, <3>2
  <2>5. CASE /\ ~a.created /\ ~Imports(was, Instructions) /\ a.imports = <<Instructions>>
             /\ c = Appended(was, ImportOf(Instructions))
    <3>1. Bare(p) = RemoveImport(c, Instructions)
      BY <1>2, <2>5, WithoutImportsUnfolds
    <3>2. Instructions \in Targets
      BY DEF Targets
    <3>3. Imports(c, Instructions) /\ RemoveImport(c, Instructions) = was
      BY <2>2, <2>5, <3>2, RemoveImportOfAppended
    <3>4. Bare(p) = was /\ was # c
      BY <2>5, <3>1, <3>3
    <3>5. Written(p, was) = was
      BY <1>1, <2>2, <3>4, WrittenContent
    <3> QED
      BY <1>8, <2>1, <2>2, <2>5, <3>4, <3>5
  <2> QED
    BY <2>1, <2>3, <2>4, <2>5
<1>10. ProperArtifact(p, NULL) /\ ProperBridges(p, FileContent(file), NULL)
  BY <1>6, <1>7, <1>8 DEF ProperArtifact, ProperBridges
<1>11. edits = 0 => Pristine(p, file, NULL)
  BY <1>9 DEF Pristine
<1> HIDE DEF file
<1> QED
  BY <1>8, <1>10, <1>11 DEF Kept, ProperFile, file

-----------------------------------------------------------------------------
(* Taking one provider out of a file.                                      *)

\* Where a provider is routed, and in which form.
LEMMA RouteProperties ==
    ASSUME AdaptersInv, NEW id \in Providers, NEW direct
    PROVE  LET route == RouteOf(id, direct) IN
           /\ route.path \in Candidates(id) /\ route.path \in Paths
           /\ route.mode = IF route.path = Claude THEN "IMPORT" ELSE "MANAGED_BLOCK"
           /\ route.create \in BOOLEAN
           /\ route.create <=> ~Present(route.path)
<1>1. id \in {"codex", "claude-code", "workbuddy"}
  BY KnownProviders
<1>2. CASE id = "codex"
  BY <1>2 DEF RouteOf, CodexRoute, Route, Candidates, Paths, Override, Agents, Claude, CodeBuddy
<1>3. CASE id = "workbuddy"
  BY <1>3 DEF RouteOf, WorkBuddyRoute, Route, Candidates, Paths, Override, Agents, Claude, CodeBuddy
<1>4. CASE id = "claude-code"
  BY <1>4 DEF RouteOf, ClaudeRoute, Route, Candidates, Paths, Override, Agents, Claude, CodeBuddy
<1> QED
  BY <1>1, <1>2, <1>3, <1>4

\* CLAUDE.md is read by one provider only.
LEMMA ClaudeIsForClaude ==
    ASSUME NEW id \in Providers, Claude \in Candidates(id)
    PROVE  id = "claude-code"
BY KnownProviders DEF Candidates, Override, Agents, Claude, CodeBuddy

\* An import put into a file without blocks.
LEMMA ImportAdded ==
    ASSUME NEW c \in NativeContents, Blocks(c) = {},
           \A u \in Targets : ImportPossible(c, u), NEW t \in Targets
    PROVE  LET r == UpsertImport(c, t) IN
           /\ r \in NativeContents /\ Blocks(r) = {}
           /\ \A u \in Targets : /\ ImportPossible(r, u)
                                 /\ Imports(c, u) => Imports(r, u)
                                 /\ Imports(r, u) => Imports(c, u) \/ u = t
           /\ Imports(r, t)
           /\ Imports(c, t) => r = c
           /\ ~Imports(c, t) => r = Appended(c, ImportOf(t)) /\ r # <<>>
<1> DEFINE x == ImportOf(t)
           r == Appended(c, x)
<1>1. CASE Imports(c, t)
  BY <1>1 DEF UpsertImport
<1>2. CASE ~Imports(c, t)
  <2>1. x \in Tokens /\ NL \in Tokens /\ c \in Seq(Tokens) /\ x # NL
        /\ x.kind = "import" /\ "block" # "newline" /\ "block" # "import"
    BY TokensOfBridges, Kinds DEF NativeContents
  <2>2. Lines(c, x) = {}
    BY <1>2 DEF Imports
  <2>3. \A u \in Targets : u # t => ImportOf(u) # x /\ ImportOf(u) # NL
    BY Kinds DEF ImportOf
  <2>4. UpsertImport(c, t) = r
    BY <1>2 DEF UpsertImport
  <2> HIDE DEF x
  <2>5. /\ r \in Seq(Tokens)
        /\ c = <<>> => r = <<x>>
        /\ c # <<>> => Len(r) = Len(c) + 2
        /\ c # <<>> => \A i \in 1..Len(c) : r[i] = c[i]
        /\ c # <<>> => r[Len(c) + 1] = NL
        /\ r[Len(r)] = x
    BY <2>1, AppendedProperties
  <2>6. Blocks(r) = {} /\ r # <<>>
    BY <2>1, PlacesOfAppended DEF Blocks
  <2>7. Lines(r, x) = {Len(r)}
    BY <2>1, <2>2, LinesOfAppended
  <2>8. ASSUME NEW u \in Targets, u # t
        PROVE  Lines(r, ImportOf(u)) = Lines(c, ImportOf(u))
    <3>1. PICK y : y = ImportOf(u)
      OBVIOUS
    <3>2. y # NL /\ y # x
      BY <2>3, <2>8, <3>1
    <3>3. Lines(Appended(c, x), y) = Lines(c, y)
      BY <2>1, <3>2, OtherLinesOfAppended
    <3> QED
      BY <3>1, <3>3
  <2> HIDE DEF r
  <2>9. \A u \in Targets : /\ ImportPossible(r, u)
                           /\ Imports(c, u) => Imports(r, u)
                           /\ Imports(r, u) => Imports(c, u) \/ u = t
    <3> TAKE u \in Targets
    <3>1. CASE u = t
      BY <1>2, <2>7, <3>1 DEF ImportPossible, Imports, x
    <3>2. CASE u # t
      BY <2>8, <3>2 DEF ImportPossible, Imports
    <3> QED
      BY <3>1, <3>2
  <2>10. Imports(r, t)
    BY <2>7 DEF Imports, x
  <2> QED
    BY <1>2, <2>4, <2>5, <2>6, <2>9, <2>10 DEF NativeContents, r, x
<1> QED
  BY <1>1, <1>2

\* A consumer leaves: the last one takes the bridge with him, another one his name.
LEMMA DetachedKeeps ==
    ASSUME AdaptersInv, NEW id, NEW p \in EntriesOf(id), Detachable(p, id)
    PROVE  Kept(p, DetachedFile(p, id), Detached(p, id))
<1> DEFINE a == integrations[p]
           c == Content(p)
           o == original[p]
           was == FileContent(o)
           left == Remaining(p, id)
<1>1. p \in Registered /\ id \in Consumers(p)
  BY DEF EntriesOf
<1>2. CASE left = {}
  <2>1. DetachedFile(p, id) = Emptied(p, Bare(p)) /\ Detached(p, id) = NULL
    BY <1>2 DEF DetachedFile, DetachedContent, Detached
  <2>2. CASE p = Claude
    BY <1>1, <2>1, <2>2, BareImports
  <2>3. CASE p # Claude
    <3>1. a.mode = "MANAGED_BLOCK" /\ BarePossible(p)
      BY <1>1, <1>2, <2>3, RegisteredArtifact DEF Detachable
    <3>2. \/ a.created /\ c = a.sum
          \/ RemovePossible(c, Block(p, Consumers(p)))
      BY <3>1 DEF BarePossible, Consumers
    <3> QED
      BY <1>1, <2>1, <2>3, <3>2, BareManaged
  <2> QED
    BY <2>2, <2>3
<1>3. CASE left # {}
  <2>1. p # Claude
    <3> SUFFICES ASSUME p = Claude PROVE FALSE
      OBVIOUS
    <3>1. \A i \in Consumers(p) : i = "claude-code"
      BY <1>1, RegisteredArtifact, ClaudeIsForClaude
    <3> QED
      BY <1>1, <1>3, <3>1 DEF Remaining
  <2>2. /\ p \in Paths /\ a # NULL /\ a \in Artifacts /\ a.mode = "MANAGED_BLOCK"
        /\ c \in NativeContents /\ o \in Originals /\ c = FileContent(files[p])
        /\ Consumers(p) \in SUBSET Providers /\ a.consumers = Consumers(p)
        /\ \A i \in Consumers(p) : p \in Candidates(i)
        /\ a.imports = <<>>
    BY <1>1, <2>1, RegisteredArtifact, ContentIsProper DEF Consumers
  <2>3. RemovePossible(c, Block(p, Consumers(p)))
    BY <1>3 DEF Detachable
  <2>4. /\ Rest(p) \in NativeContents /\ Blocks(Rest(p)) = {}
        /\ Places(Rest(p), "import") = {}
        /\ Outside(c) = Rest(p) /\ Outside(Rest(p)) = Rest(p)
    BY <1>1, <2>1, <2>3, RemovedInProper
  <2> DEFINE b == Block(p, left)
             u == UpsertManagedBlock(Rest(p), b)
             new == Detached(p, id)
             file == DetachedFile(p, id)
  <2>5. left \in SUBSET Providers
    BY <2>2 DEF Remaining
  <2>6. /\ u = Appended(Rest(p), b)
        /\ u \in NativeContents /\ u # <<>>
        /\ RemovePossible(u, b)
        /\ \A i \in Blocks(u) : Blocks(u) = {i} /\ u[i] = b
        /\ Delimited(u)
        /\ Places(Rest(p), "import") = {} => Places(u, "import") = {}
        /\ Outside(u) = Rest(p) /\ RemoveManagedBlock(u) = Rest(p)
        /\ \A art : art # NULL /\ art.outside = Rest(p) => UserPart(u, art) = Rest(p)
    BY <2>2, <2>4, <2>5, Upserted
  <2>7. DetachedContent(p, id) = u
    BY <1>3 DEF DetachedContent
  <2> HIDE DEF u
  <2>8. /\ new \in Artifacts /\ new.consumers = left /\ new.mode = "MANAGED_BLOCK"
        /\ new.imports = <<>> /\ new.created = a.created /\ new.sum = u
        /\ new.outside = Rest(p)
    <3>1. new = [a EXCEPT !.consumers = left, !.facts = IF id = "claude-code" THEN "" ELSE @,
                          !.sum = u, !.outside = Rest(p)]
      BY <1>3, <2>7 DEF Detached
    <3> HIDE DEF new, left
    <3>2. new \in Artifacts
      <4>1. "" \in Facts
        BY NothingIsAFact
      <4> QED
        BY <1>3, <2>2, <2>4, <2>5, <2>6, <3>1, <4>1 DEF Artifacts
    <3> QED
      BY <2>2, <3>1, <3>2 DEF Artifacts
  <2>9. /\ file \in NativeContents \cup {MISSING} /\ FileContent(file) = u
    BY <2>2, <2>6, <2>7, EmptiedContent DEF DetachedFile
  <2> HIDE DEF new, file
  <2>10. new # NULL
    BY <2>8, MarkersAssumption
  <2>11. ProperArtifact(p, new)
    BY <2>1, <2>2, <2>8 DEF ProperArtifact, Remaining
  <2>12. ProperBridges(p, u, new)
    BY <2>1, <2>4, <2>6, <2>8, <2>10 DEF ProperBridges
  <2>13. ASSUME edits = 0
         PROVE  Pristine(p, file, new)
    <3>1. (a.created <=> was = <<>>) /\ c = Appended(was, Block(p, Consumers(p)))
      BY <1>1, <2>1, <2>2, <2>13, RegisteredArtifact DEF Pristine
    <3>2. was \in NativeContents /\ Blocks(was) = {}
      BY <2>2, OriginalContent
    <3>3. Rest(p) = was
      <4> DEFINE v == UpsertManagedBlock(was, Block(p, Consumers(p)))
      <4>1. v = Appended(was, Block(p, Consumers(p))) /\ RemoveManagedBlock(v) = was
        BY <2>2, <3>2, Upserted
      <4> QED
        BY <3>1, <4>1 DEF Rest
    <3> QED
      BY <2>1, <2>6, <2>8, <2>9, <2>10, <3>1, <3>3 DEF Pristine
  <2>14. VerifiedAs(p, u, new)
    BY <2>6, <2>8 DEF VerifiedAs
  <2>15. \/ UserPart(u, new) = UserContent(p)
         \/ /\ a.outside = <<>> /\ BreakBefore(c)
            /\ UserPart(u, new) = Outside(c)
    <3>1. UserPart(u, new) = Rest(p)
      BY <2>6, <2>8, <2>10
    <3> QED
      BY <1>1, <2>1, <2>3, <3>1, RestIsUsers
  <2> QED
    BY <1>1, <2>6, <2>9, <2>11, <2>12, <2>13, <2>14, <2>15 DEF Kept, ProperFile, new, file
<1> QED
  BY <1>2, <1>3

-----------------------------------------------------------------------------
(* Putting one provider into a file.                                       *)

\* What an adapter is given on a file that is routed by a managed block.
LEMMA BlockAttached ==
    ASSUME AdaptersInv, NEW id \in Providers, NEW given \in Facts, NEW arts,
           NEW route, route = RouteOf(id, given), route.path # Claude,
           arts[route.path] = integrations[route.path], route.path \notin EntriesOf(id),
           Attachable(arts, route, id),
           NEW new, new = Attached(arts, route, id, given)
    PROVE  Kept(route.path, Written(route.path, new.sum), new)
<1> DEFINE p == route.path
           a == integrations[p]
           c == Content(p)
           o == original[p]
           was == FileContent(o)
           consumers == {id} \cup (IF a = NULL THEN {} ELSE a.consumers)
           base == IF a = NULL THEN c ELSE RemoveManagedBlock(c)
           b == Block(p, consumers)
           u == UpsertManagedBlock(base, b)
<1>1. /\ p \in Paths /\ p \in Candidates(id) /\ route.mode = "MANAGED_BLOCK"
      /\ route.create \in BOOLEAN /\ (route.create <=> c = <<>>)
  BY RouteProperties DEF Present
<1>2. /\ c \in NativeContents /\ c = FileContent(files[p]) /\ o \in Originals
      /\ a = NULL \/ a \in Artifacts
      /\ p \in Registered <=> a # NULL
      /\ Places(c, "import") = {}
      /\ a = NULL => Blocks(c) = {}
      /\ edits = 0 => Pristine(p, files[p], a)
  <2>1. /\ c \in NativeContents /\ c = FileContent(files[p])
        /\ a = NULL \/ a \in Artifacts
        /\ p \in Registered <=> a # NULL
        /\ ProperFile(p, files[p], a)
        /\ o \in Originals
    BY <1>1, ContentIsProper
  <2>2. ProperBridges(p, c, a) /\ (edits = 0 => Pristine(p, files[p], a))
    BY <2>1 DEF ProperFile
  <2> QED
    BY <2>1, <2>2 DEF ProperBridges
<1>3. a # NULL => /\ a.mode = "MANAGED_BLOCK" /\ a.consumers \in SUBSET Providers
                  /\ \A i \in a.consumers : p \in Candidates(i)
                  /\ a.consumers = Consumers(p)
                  /\ a.facts \in Facts /\ a.created \in BOOLEAN
  BY <1>2, RegisteredArtifact DEF Consumers, Artifacts
<1>4. /\ base \in NativeContents /\ Blocks(base) = {} /\ Places(base, "import") = {}
      /\ Outside(base) = base
      /\ \/ base = UserContent(p)
         \/ /\ p \in Registered /\ a.outside = <<>> /\ BreakBefore(c)
            /\ base = Outside(c)
  <2>1. CASE a = NULL
    <3>1. Blocks(c) = {} /\ base = c
      BY <1>2, <2>1
    <3>2. UserContent(p) = c
      BY <2>1 DEF UserContent, UserPart
    <3> QED
      BY <1>2, <3>1, <3>2 DEF Outside
  <2>2. CASE a # NULL
    <3>1. RemovePossible(c, Block(p, Consumers(p))) /\ p \in Registered
      BY <1>1, <1>2, <1>3, <2>2 DEF Attachable
    <3>2. base = Rest(p)
      BY <2>2 DEF Rest
    <3> HIDE DEF base
    <3> QED
      BY <1>2, <3>1, <3>2, RemovedInProper, RestIsUsers
  <2> QED
    BY <2>1, <2>2
<1>5. consumers \in SUBSET Providers /\ consumers # {} /\ \A i \in consumers : p \in Candidates(i)
  BY <1>1, <1>3
<1> HIDE DEF base, consumers
<1>6. /\ u = Appended(base, b)
      /\ u \in NativeContents /\ u # <<>>
      /\ RemovePossible(u, b)
      /\ \A i \in Blocks(u) : Blocks(u) = {i} /\ u[i] = b
      /\ Delimited(u)
      /\ Places(base, "import") = {} => Places(u, "import") = {}
      /\ Outside(u) = base /\ RemoveManagedBlock(u) = base
      /\ \A art : art # NULL /\ art.outside = base => UserPart(u, art) = base
  BY <1>1, <1>4, <1>5, Upserted
<1> DEFINE facts == IF id = "claude-code" THEN given ELSE IF a = NULL THEN "" ELSE a.facts
           created == IF a = NULL THEN route.create ELSE a.created
<1>7. new = [mode |-> "MANAGED_BLOCK", consumers |-> consumers, facts |-> facts,
             created |-> created, imports |-> <<>>, sum |-> u, outside |-> Outside(base)]
  BY <1>1 DEF Attached, base, consumers
<1> HIDE DEF u, facts, created
<1>8. /\ new.mode = "MANAGED_BLOCK" /\ new.consumers = consumers /\ new.imports = <<>>
      /\ new.sum = u /\ new.created = created /\ new.outside = base
  BY <1>4, <1>7
<1>9. new \in Artifacts
  <2>1. facts \in Facts
    BY <1>3, NothingIsAFact DEF facts
  <2>2. created \in BOOLEAN
    BY <1>1, <1>3 DEF created
  <2>3. <<>> \in Seq({Agents, Instructions})
    OBVIOUS
  <2>4. "MANAGED_BLOCK" \in Modes /\ consumers \in (SUBSET Providers) \ {{}}
    BY <1>5 DEF Modes
  <2> QED
    BY <1>4, <1>6, <1>7, <2>1, <2>2, <2>3, <2>4 DEF Artifacts
<1>10. new # NULL
  BY <1>9, MarkersAssumption
<1> DEFINE file == Written(p, u)
<1>11. file \in NativeContents \cup {MISSING} /\ FileContent(file) = u
  BY <1>1, <1>6, WrittenContent
<1> HIDE DEF file
<1>12. ProperArtifact(p, new)
  BY <1>5, <1>8, <1>9 DEF ProperArtifact
<1>13. ProperBridges(p, u, new)
  BY <1>4, <1>6, <1>8, <1>10 DEF ProperBridges
<1>14. ASSUME edits = 0
       PROVE  Pristine(p, file, new)
  <2>1. was \in NativeContents /\ Blocks(was) = {}
    BY <1>2, OriginalContent
  <2>2. base = was /\ (new.created <=> was = <<>>)
    <3>1. CASE a = NULL
      <4>1. files[p] = o \/ (o = <<>> /\ files[p] = MISSING)
        BY <1>2, <1>14, <3>1 DEF Pristine
      <4>2. c = was
        BY <1>2, <4>1, MarkersAssumption DEF FileContent
      <4> QED
        BY <1>1, <1>8, <3>1, <4>2 DEF base, created
    <3>2. CASE a # NULL
      <4>1. (a.created <=> was = <<>>) /\ c = Appended(was, Block(p, a.consumers))
        BY <1>2, <1>14, <3>2 DEF Pristine
      <4> DEFINE v == UpsertManagedBlock(was, Block(p, a.consumers))
      <4>2. v = Appended(was, Block(p, a.consumers)) /\ RemoveManagedBlock(v) = was
        BY <1>1, <1>3, <2>1, <3>2, Upserted
      <4> QED
        BY <1>8, <3>2, <4>1, <4>2 DEF base, created
    <3> QED
      BY <3>1, <3>2
  <2> QED
    BY <1>6, <1>8, <1>10, <1>11, <2>2 DEF Pristine
<1>15. VerifiedAs(p, u, new)
  BY <1>6, <1>8 DEF VerifiedAs
<1>16. UserPart(u, new) = base
  BY <1>6, <1>8, <1>10
<1> QED
  BY <1>4, <1>8, <1>11, <1>12, <1>13, <1>14, <1>15, <1>16 DEF Kept, ProperFile, file

\* What Claude Code is given in its own file.
LEMMA ImportAttached ==
    ASSUME AdaptersInv, NEW id \in Providers, NEW given \in Facts, NEW arts,
           NEW route, route = RouteOf(id, given), route.path = Claude,
           arts[route.path] = integrations[route.path], route.path \notin EntriesOf(id),
           Attachable(arts, route, id),
           NEW new, new = Attached(arts, route, id, given)
    PROVE  Kept(route.path, Written(route.path, new.sum), new)
<1> DEFINE p == Claude
           a == integrations[p]
           c == Content(p)
           o == original[p]
           was == FileContent(o)
           hides == HidesAgents(route)
           missing(t) == IF Imports(c, t) THEN <<>> ELSE <<t>>
           imports == (IF hides THEN missing(Agents) ELSE <<>>) \o missing(Instructions)
           kept == IF hides THEN UpsertImport(c, Agents) ELSE c
           u == UpsertImport(kept, Instructions)
<1>1. /\ p \in Paths /\ p \in Candidates(id) /\ route.mode = "IMPORT"
      /\ route.create \in BOOLEAN /\ (route.create <=> c = <<>>)
  BY RouteProperties DEF Present
<1>2. id = "claude-code"
  BY <1>1, ClaudeIsForClaude
<1>3. a = NULL
  <2> SUFFICES ASSUME a # NULL PROVE FALSE
    OBVIOUS
  <2>1. p \in Registered
    BY <1>1, ContentIsProper
  <2>2. Consumers(p) # {} /\ \A i \in Consumers(p) : i = "claude-code"
    BY <2>1, RegisteredArtifact, ClaudeIsForClaude
  <2> QED
    BY <1>2, <2>1, <2>2 DEF EntriesOf
<1>4. /\ c \in NativeContents /\ c = FileContent(files[p]) /\ o \in Originals
      /\ Blocks(c) = {}
      /\ \A t \in Targets : ImportPossible(c, t)
                            /\ (Imports(c, t) => o = ByHand /\ t = Instructions)
      /\ edits = 0 => Pristine(p, files[p], a)
  <2>1. /\ c \in NativeContents /\ c = FileContent(files[p])
        /\ a = NULL \/ a \in Artifacts
        /\ p \in Registered <=> a # NULL
        /\ ProperFile(p, files[p], a)
        /\ o \in Originals
    BY <1>1, ContentIsProper
  <2>2. ProperBridges(p, c, a) /\ (edits = 0 => Pristine(p, files[p], a))
    BY <2>1 DEF ProperFile
  <2> QED
    BY <1>3, <2>1, <2>2 DEF ProperBridges, Owns
<1>5. Agents \in Targets /\ Instructions \in Targets /\ Agents # Instructions
  BY DEF Targets, Agents, Instructions
<1>6. hides => c = <<>> /\ ~Imports(c, Agents) /\ ~Imports(c, Instructions)
  <2>1. DOMAIN <<>> = {}
    OBVIOUS
  <2>2. \A t : ~Imports(<<>>, t)
    BY <2>1 DEF Imports, Lines
  <2> QED
    BY <1>1, <2>2 DEF HidesAgents
<1>7. imports = IF hides THEN <<Agents, Instructions>>
                ELSE IF Imports(c, Instructions) THEN <<>> ELSE <<Instructions>>
  <2>1. <<Agents>> \o <<Instructions>> = <<Agents, Instructions>>
    <3>1. \A x, y \in Targets : <<x>> \o <<y>> = Append(<<x>>, y)
      OBVIOUS
    <3>2. \A x, y \in Targets : <<x, y>> = Append(<<x>>, y)
      OBVIOUS
    <3> QED
      BY <1>5, <3>1, <3>2
  <2>2. <<>> \o <<>> = <<>> /\ <<>> \o <<Instructions>> = <<Instructions>>
    <3>1. <<>> \in Seq(Targets)
      OBVIOUS
    <3>2. <<Instructions>> \in Seq(Targets)
      BY <1>5
    <3> QED
      BY <3>1, <3>2, ConcatEmptySeq
  <2>3. CASE hides
    <3>1. missing(Agents) = <<Agents>> /\ missing(Instructions) = <<Instructions>>
      BY <1>6, <2>3
    <3> HIDE DEF missing, hides
    <3> QED
      BY <2>1, <2>3, <3>1
  <2>4. CASE ~hides
    <3> HIDE DEF hides
    <3>1. imports = <<>> \o missing(Instructions)
      BY <2>4
    <3> QED
      BY <2>2, <2>4, <3>1
  <2> QED
    BY <2>3, <2>4
<1>8. /\ kept \in NativeContents /\ Blocks(kept) = {}
      /\ \A t \in Targets : /\ ImportPossible(kept, t)
                            /\ Imports(kept, t) => Imports(c, t) \/ (hides /\ t = Agents)
  BY <1>4, <1>5, ImportAdded
<1> HIDE DEF hides, imports, kept
<1>9. /\ u \in NativeContents /\ Blocks(u) = {}
      /\ \A t \in Targets : /\ ImportPossible(u, t)
                            /\ Imports(kept, t) => Imports(u, t)
                            /\ Imports(u, t) => Imports(kept, t) \/ t = Instructions
      /\ Imports(u, Instructions)
      /\ Imports(kept, Instructions) => u = kept
      /\ ~Imports(kept, Instructions) => u = Appended(kept, ImportOf(Instructions)) /\ u # <<>>
  BY <1>5, <1>8, ImportAdded
<1>10. new = [mode |-> "IMPORT", consumers |-> {id}, facts |-> given, created |-> route.create,
              imports |-> imports, sum |-> u, outside |-> c]
  <2>1. {id} \cup {} = {id}
    OBVIOUS
  <2> QED
    BY <1>1, <1>2, <1>3, <2>1 DEF Attached, hides, imports, kept
<1> HIDE DEF u
<1>11. /\ new.mode = "IMPORT" /\ new.consumers = {id} /\ new.imports = imports
       /\ new.sum = u /\ new.created = route.create
  BY <1>10
<1>12. new \in Artifacts
  <2>1. imports \in Seq({Agents, Instructions}) /\ "IMPORT" \in Modes
        /\ {id} \in (SUBSET Providers) \ {{}}
    <3>1. <<>> \in Seq({Agents, Instructions})
      OBVIOUS
    <3>2. <<Instructions>> \in Seq({Agents, Instructions})
      OBVIOUS
    <3>3. <<Agents, Instructions>> \in Seq({Agents, Instructions})
      OBVIOUS
    <3>4. {id} \in (SUBSET Providers) \ {{}}
      OBVIOUS
    <3> QED
      BY <1>7, <3>1, <3>2, <3>3, <3>4 DEF Modes
  <2> QED
    BY <1>1, <1>4, <1>9, <1>10, <2>1 DEF Artifacts
<1>13. new # NULL
  BY <1>12, MarkersAssumption
<1> DEFINE file == Written(p, u)
<1>14. /\ file \in NativeContents \cup {MISSING} /\ FileContent(file) = u
       /\ u = c => file = files[p]
  BY <1>1, <1>9, WrittenContent
<1> HIDE DEF file
<1>15. ProperArtifact(p, new)
  BY <1>1, <1>7, <1>11, <1>12 DEF ProperArtifact
<1>16. \A t \in Targets : Imports(u, t) => Owns(new, t) \/ (o = ByHand /\ t = Instructions)
  <2>1. hides => Owns(new, Agents) /\ Owns(new, Instructions)
    <3>1. hides => DOMAIN imports = {1, 2} /\ imports[1] = Agents /\ imports[2] = Instructions
      BY <1>7
    <3> QED
      BY <1>11, <1>13, <3>1 DEF Owns
  <2>2. ~Imports(c, Instructions) => Owns(new, Instructions)
    <3>1. ~hides /\ ~Imports(c, Instructions) => DOMAIN imports = {1} /\ imports[1] = Instructions
      BY <1>7
    <3> QED
      BY <1>11, <1>13, <2>1, <3>1 DEF Owns
  <2> QED
    BY <1>4, <1>5, <1>8, <1>9, <2>1, <2>2 DEF Targets
<1>17. ProperBridges(p, u, new)
  BY <1>9, <1>16 DEF ProperBridges
<1>18. ASSUME edits = 0
       PROVE  Pristine(p, file, new)
  <2>1. files[p] = o \/ (o = <<>> /\ files[p] = MISSING)
    BY <1>3, <1>4, <1>18 DEF Pristine
  <2>2. c = was
    BY <1>4, <2>1, MarkersAssumption DEF FileContent
  <2>3. was # <<>> => ~hides /\ kept = c /\ files[p] = o
    BY <1>4, <1>6, <2>1, <2>2 DEF kept, FileContent
  <2>4. was # <<>> => \/ file = o /\ imports = <<>>
                      \/ /\ ~Imports(was, Instructions) /\ imports = <<Instructions>>
                         /\ u = Appended(was, ImportOf(Instructions))
    BY <1>7, <1>9, <1>14, <2>2, <2>3
  <2> QED
    BY <1>1, <1>11, <1>13, <1>14, <2>2, <2>4 DEF Pristine
<1>19. VerifiedAs(p, u, new)
  BY <1>5, <1>9, <1>11 DEF VerifiedAs
<1> QED
  BY <1>11, <1>14, <1>15, <1>17, <1>18, <1>19 DEF Kept, ProperFile, file

-----------------------------------------------------------------------------
(* The commands of the adapters.                                           *)

\* What nobody touches keeps what it had.
LEMMA UntouchedKeeps ==
    ASSUME AdaptersInv, NEW p \in Paths
    PROVE  Kept(p, files[p], integrations[p])
<1>1. /\ Content(p) = FileContent(files[p])
      /\ p \in Registered <=> integrations[p] # NULL
      /\ ProperFile(p, files[p], integrations[p])
  BY ContentIsProper
<1> QED
  BY <1>1 DEF Kept, Verified, VerifiedAs, Consumers, UserContent

\* A command that keeps every file keeps the invariant.
LEMMA KeptTogether ==
    ASSUME AdaptersInv, UNCHANGED <<original, edits>>,
           files' \in [Paths -> NativeContents \cup {MISSING}],
           integrations' \in [Paths -> Artifacts \cup {NULL}],
           ValidManifest(integrations'),
           \A p \in Paths : Kept(p, files'[p], integrations'[p])
    PROVE  AdaptersInv'
<1>1. ASSUME NEW p \in Paths
      PROVE  ProperFile(p, files[p], integrations[p])'
  <2>1. ProperFile(p, files'[p], integrations'[p])
    BY DEF Kept
  <2>2. files'[p] \in NativeContents \cup {MISSING} /\ ProperArtifact(p, integrations'[p])
    BY <2>1 DEF ProperFile
  <2>3. ProperBridges(p, FileContent(files[p]), integrations[p])'
    BY <2>1 DEF ProperFile, ProperBridges
  <2>4. (edits = 0 => Pristine(p, files[p], integrations[p]))'
    BY <2>1 DEF ProperFile, Pristine
  <2> QED
    BY <2>2, <2>3, <2>4 DEF ProperFile
<1>2. original' \in [Paths -> Originals] /\ edits' \in 0..MaxEdits
      /\ \A p \in Paths : original'[p] = ByHand => p = Claude
  BY DEF AdaptersInv
<1>3. ValidManifest(integrations)'
  BY DEF ValidManifest
<1> QED
  BY <1>1, <1>2, <1>3 DEF AdaptersInv

\* Removing an adapter keeps every file.
LEMMA RemoveKeeps ==
    ASSUME AdaptersInv, NEW id, AdapterRemove(id)
    PROVE  /\ \A p \in Paths : Kept(p, files'[p], integrations'[p])
           /\ AdaptersInv'
<1>1. PICK p \in EntriesOf(id) :
         /\ Detachable(p, id)
         /\ integrations' = [integrations EXCEPT ![p] = Detached(p, id)]
         /\ Encodes(integrations')
         /\ files' = [files EXCEPT ![p] = DetachedFile(p, id)]
         /\ UNCHANGED <<original, edits>>
  BY DEF AdapterRemove
<1>2. p \in Paths /\ Kept(p, DetachedFile(p, id), Detached(p, id))
  BY <1>1, DetachedKeeps DEF EntriesOf, Registered
<1>3. /\ files \in [Paths -> NativeContents \cup {MISSING}]
      /\ integrations \in [Paths -> Artifacts \cup {NULL}]
  BY DEF AdaptersInv
<1>4. /\ DetachedFile(p, id) \in NativeContents \cup {MISSING}
      /\ Detached(p, id) \in Artifacts \cup {NULL}
  BY <1>2 DEF Kept, ProperFile, ProperArtifact
<1>5. ASSUME NEW q \in Paths
      PROVE  Kept(q, files'[q], integrations'[q])
  <2>1. CASE q = p
    BY <1>1, <1>2, <1>3, <2>1
  <2>2. CASE q # p
    <3>1. Kept(q, files[q], integrations[q])
      BY UntouchedKeeps
    <3> QED
      BY <1>1, <1>3, <2>2, <3>1
  <2> QED
    BY <2>1, <2>2
<1>6. /\ files' \in [Paths -> NativeContents \cup {MISSING}]
      /\ integrations' \in [Paths -> Artifacts \cup {NULL}]
  BY <1>1, <1>3, <1>4
<1>7. ValidManifest(integrations') /\ UNCHANGED <<original, edits>>
  BY <1>1 DEF Encodes
<1>8. AdaptersInv'
  BY <1>5, <1>6, <1>7, KeptTogether
<1> QED
  BY <1>5, <1>8

\* So does adding one, which may move an entry from another file.
LEMMA AddKeeps ==
    ASSUME AdaptersInv, NEW id \in Providers, NEW given \in Facts, AdapterAdd(id, given)
    PROVE  /\ \A p \in Paths : Kept(p, files'[p], integrations'[p])
           /\ AdaptersInv'
<1>1. PICK route : route = RouteOf(id, given)
  OBVIOUS
<1>2. PICK moved : moved = [p \in Paths |->
          IF p \in EntriesOf(id) THEN Detached(p, id) ELSE integrations[p]]
  OBVIOUS
<1>3. PICK new : new = Attached(moved, route, id, given)
  OBVIOUS
<1>4. /\ route.path \notin EntriesOf(id)
      /\ \A p \in EntriesOf(id) : Detachable(p, id)
      /\ Attachable(moved, route, id)
      /\ integrations' = [moved EXCEPT ![route.path] = new]
      /\ Encodes(integrations')
      /\ files' = [p \in Paths |->
            IF p = route.path THEN Written(p, integrations'[p].sum)
            ELSE IF p \in EntriesOf(id) THEN DetachedFile(p, id) ELSE files[p]]
      /\ UNCHANGED <<original, edits>>
  BY <1>1, <1>2, <1>3 DEF AdapterAdd
<1>5. route.path \in Paths
  BY <1>1, RouteProperties
<1>6. moved[route.path] = integrations[route.path]
  BY <1>2, <1>4, <1>5
<1>7. Kept(route.path, Written(route.path, new.sum), new)
  BY <1>1, <1>3, <1>4, <1>6, BlockAttached, ImportAttached
<1>8. integrations'[route.path] = new /\ DOMAIN integrations' = Paths
      /\ files'[route.path] = Written(route.path, new.sum)
  BY <1>2, <1>4, <1>5
<1>9. ASSUME NEW q \in Paths
      PROVE  Kept(q, files'[q], integrations'[q])
  <2>1. CASE q = route.path
    BY <1>7, <1>8, <2>1
  <2>2. CASE q # route.path /\ q \in EntriesOf(id)
    <3>1. Kept(q, DetachedFile(q, id), Detached(q, id))
      BY <1>4, <2>2, DetachedKeeps
    <3> QED
      BY <1>2, <1>4, <2>2, <3>1
  <2>3. CASE q # route.path /\ q \notin EntriesOf(id)
    <3>1. Kept(q, files[q], integrations[q])
      BY UntouchedKeeps
    <3> QED
      BY <1>2, <1>4, <2>3, <3>1
  <2> QED
    BY <2>1, <2>2, <2>3
<1>10. \A q \in Paths : /\ files'[q] \in NativeContents \cup {MISSING}
                        /\ integrations'[q] \in Artifacts \cup {NULL}
  BY <1>9 DEF Kept, ProperFile, ProperArtifact
<1>11. files' \in [Paths -> NativeContents \cup {MISSING}]
  BY <1>4, <1>10
<1>12. integrations' \in [Paths -> Artifacts \cup {NULL}]
  BY <1>2, <1>4, <1>10
<1>13. ValidManifest(integrations') /\ UNCHANGED <<original, edits>>
  BY <1>4 DEF Encodes
<1>14. AdaptersInv'
  BY <1>9, <1>11, <1>12, <1>13, KeptTogether
<1> QED
  BY <1>9, <1>14

-----------------------------------------------------------------------------
(* The user's edits, and the beginning.                                    *)

\* A content whose bridges are those of another one, moved by so many places.
LEMMA MovedBridges ==
    ASSUME NEW p, NEW a, NEW c \in NativeContents, ProperBridges(p, c, a),
           NEW d \in NativeContents, NEW k \in Nat,
           \A i \in DOMAIN d : IsBridge(d[i]) => i - k \in DOMAIN c /\ d[i] = c[i - k],
           Delimited(c) => Delimited(d),
           \A t \in Targets : \A i \in Lines(d, ImportOf(t)) : i - k \in Lines(c, ImportOf(t))
    PROVE  ProperBridges(p, d, a)
<1>1. \A i \in DOMAIN d : i \in Int
  BY DEF NativeContents
<1>2. \A i, j \in Int : i - k = j - k => i = j
  OBVIOUS
<1>3. \A i \in Blocks(d) : i \in DOMAIN d /\ i - k \in Blocks(c) /\ d[i] = c[i - k]
  BY DEF Blocks, Places, IsBridge
<1>4. Places(c, "import") = {} => Places(d, "import") = {}
  BY DEF Places, IsBridge
<1>5. CASE p = Claude
  <2>1. /\ Blocks(c) = {}
        /\ \A t \in Targets : ImportPossible(c, t)
        /\ \A t \in Targets :
              Imports(c, t) => Owns(a, t) \/ (original[p] = ByHand /\ t = Instructions)
    BY <1>5 DEF ProperBridges
  <2>2. Blocks(d) = {}
    BY <1>3, <2>1
  <2>3. ASSUME NEW t \in Targets
        PROVE  ImportPossible(d, t) /\ (Imports(d, t) => Imports(c, t))
    <3>1. \A i \in Lines(d, ImportOf(t)) : i \in Int /\ i - k \in Lines(c, ImportOf(t))
      BY <1>1 DEF Lines
    <3>2. ImportPossible(c, t)
      BY ONLY <2>1, <2>3
    <3>3. \A i, j \in Lines(c, ImportOf(t)) : i = j
      BY <3>2 DEF ImportPossible
    <3> QED
      BY <1>2, <3>1, <3>3 DEF ImportPossible, Imports
  <2> QED
    BY <1>5, <2>1, <2>2, <2>3 DEF ProperBridges
<1>6. CASE p # Claude
  <2>1. /\ Places(c, "import") = {}
        /\ \A i \in Blocks(c) : Blocks(c) = {i} /\ a # NULL /\ c[i] = Block(p, a.consumers)
        /\ Delimited(c)
    BY <1>6 DEF ProperBridges
  <2>2. ASSUME NEW i \in Blocks(d)
        PROVE  Blocks(d) = {i} /\ a # NULL /\ d[i] = Block(p, a.consumers)
    <3>1. i \in Int /\ Blocks(c) = {i - k}
      BY <1>1, <1>3, <2>1
    <3>2. \A j \in Blocks(d) : j \in Int /\ j - k = i - k
      BY <1>1, <1>3, <3>1
    <3>3. \A j \in Blocks(d) : j = i
      BY <1>2, <3>1, <3>2
    <3> QED
      BY <1>3, <2>1, <3>3
  <2> QED
    BY <1>4, <1>6, <2>1, <2>2 DEF ProperBridges
<1> QED
  BY <1>5, <1>6

\* What the user makes of a file has no bridge that was not there.
LEMMA EditedProper ==
    ASSUME AdaptersInv, NEW p \in Paths, NEW how \in Edits, edits < MaxEdits,
           NEW file, file = Edited(p, how)
    PROVE  /\ file \in NativeContents \cup {MISSING}
           /\ ProperBridges(p, FileContent(file), integrations[p])
<1> DEFINE c == Content(p)
           a == integrations[p]
           line == Line(edits + 1)
<1>1. c \in NativeContents /\ ProperBridges(p, c, a)
  BY ContentIsProper DEF ProperFile
<1>2. /\ line \in Tokens /\ NL \in Tokens /\ c \in Seq(Tokens)
      /\ ~IsBridge(line) /\ ~IsBridge(NL)
      /\ \A t : ImportOf(t) # NL /\ ImportOf(t) # line /\ IsBridge(ImportOf(t))
  <2>1. edits + 1 \in 0..MaxEdits
    BY EditsAreBounded DEF AdaptersInv
  <2> QED
    BY <1>1, <2>1, TokensOfBridges, Kinds DEF NativeContents, IsBridge
<1>3. <<>> \in NativeContents /\ DOMAIN <<>> = {}
  BY DEF NativeContents
<1>4. 0 \in Nat /\ 2 \in Nat /\ \A i \in Int : i - 0 = i
  OBVIOUS
<1>5. how \in {"prepend", "append", "delete", "empty", "strip"}
  BY KindsOfEdits
<1> HIDE DEF c, a, line
<1>6. ASSUME NEW d \in NativeContents, \A i \in DOMAIN d : ~IsBridge(d[i])
      PROVE  ProperBridges(p, d, a)
  <2>1. \A t \in Targets : \A i \in Lines(d, ImportOf(t)) : FALSE
    BY <1>2, <1>6 DEF Lines
  <2>2. Delimited(d)
    BY <1>6 DEF Delimited, Blocks, Places, IsBridge
  <2> QED
    BY <1>1, <1>4, <1>6, <2>1, <2>2, MovedBridges
<1>7. CASE how = "prepend"
  <2> DEFINE d == <<line>> \o (IF c = <<>> THEN <<>> ELSE <<NL>> \o c)
  <2>1. file = d
    BY <1>7 DEF Edited, c, line
  <2>2. (c = <<>> => d = <<line>> \o <<>>) /\ (c # <<>> => d = <<line>> \o (<<NL>> \o c))
    OBVIOUS
  <2> HIDE DEF d
  <2>3. ASSUME NEW t \in Targets
        PROVE  /\ d \in Seq(Tokens)
               /\ \A i \in DOMAIN d : d[i] \in {line, NL} \/ (i - 2 \in DOMAIN c /\ d[i] = c[i - 2])
               /\ \A i \in Lines(d, ImportOf(t)) : i - 2 \in Lines(c, ImportOf(t))
               /\ Delimited(d)
    <3>1. PICK token : token = ImportOf(t)
      OBVIOUS
    <3>2. token # NL /\ token # line
      BY <1>2, <3>1
    <3>3. /\ d \in Seq(Tokens)
          /\ \A i \in DOMAIN d : d[i] \in {line, NL} \/ (i - 2 \in DOMAIN c /\ d[i] = c[i - 2])
          /\ \A i \in Lines(d, token) : i - 2 \in Lines(c, token)
      <4>1. c \in Seq(Tokens) /\ line \in Tokens /\ NL \in Tokens
        BY <1>2
      <4> QED
        BY <2>2, <3>2, <4>1, LinesOfPrepended
    <3>4. Delimited(d)
      <4>1. c \in Seq(Tokens) /\ line \in Tokens /\ NL \in Tokens /\ ~IsBridge(line)
        BY <1>2
      <4>2. Delimited(c)
        BY <1>1 DEF ProperBridges, Delimited
      <4> QED
        BY <2>2, <4>1, <4>2, DelimitedWhenPrepended
    <3> QED
      BY <3>1, <3>3, <3>4
  <2>4. d \in NativeContents
    BY <2>3 DEF NativeContents, Targets
  <2>5. \A i \in DOMAIN d : IsBridge(d[i]) => i - 2 \in DOMAIN c /\ d[i] = c[i - 2]
    BY <1>2, <2>3 DEF Targets
  <2>6. \A t \in Targets : \A i \in Lines(d, ImportOf(t)) : i - 2 \in Lines(c, ImportOf(t))
    BY <2>3
  <2>7. ProperBridges(p, d, a)
    <3>1. Delimited(d)
      BY <2>3 DEF Targets
    <3> QED
      BY <1>1, <1>4, <2>4, <2>5, <2>6, <3>1, MovedBridges
  <2>8. FileContent(file) = d
    BY <2>1, <2>4, MarkersAssumption DEF FileContent
  <2> QED
    BY <2>1, <2>4, <2>7, <2>8 DEF a
<1>8. CASE how = "append"
  <2> DEFINE d == Appended(c, line)
  <2>1. file = d
    BY <1>8 DEF Edited, c, line
  <2>2. /\ d \in Seq(Tokens)
        /\ c = <<>> => d = <<line>>
        /\ c # <<>> => Len(d) = Len(c) + 2
        /\ c # <<>> => \A i \in 1..Len(c) : d[i] = c[i]
        /\ c # <<>> => d[Len(c) + 1] = NL
        /\ d[Len(d)] = line
    BY <1>2, AppendedProperties
  <2>3. \A t \in Targets : Lines(d, ImportOf(t)) = Lines(c, ImportOf(t))
    <3> TAKE t \in Targets
    <3>1. PICK token : token = ImportOf(t)
      OBVIOUS
    <3>2. token # NL /\ token # line
      BY <1>2, <3>1
    <3>3. Lines(Appended(c, line), token) = Lines(c, token)
      BY <1>2, <3>2, OtherLinesOfAppended
    <3> QED
      BY <3>1, <3>3
  <2> HIDE DEF d
  <2>4. \A i \in DOMAIN d : IsBridge(d[i]) => i - 0 \in DOMAIN c /\ d[i] = c[i - 0]
    <3> SUFFICES ASSUME NEW i \in DOMAIN d, IsBridge(d[i])
                 PROVE  i \in DOMAIN c /\ d[i] = c[i]
      BY <1>2, <1>4, <2>2
    <3>1. i \in 1..Len(d) /\ Len(c) \in Nat /\ DOMAIN c = 1..Len(c)
      BY <1>2, <2>2
    <3>2. CASE c = <<>>
      <4>1. Len(d) = 1
        BY <2>2, <3>2
      <4>2. i = Len(d)
        BY <3>1, <4>1
      <4> QED
        BY <1>2, <2>2, <4>2
    <3>3. CASE c # <<>>
      <4>1. i \in 1..Len(c) \/ i = Len(c) + 1 \/ i = Len(d)
        BY <2>2, <3>1, <3>3
      <4> QED
        BY <1>2, <2>2, <3>1, <3>3, <4>1
    <3> QED
      BY <3>2, <3>3
  <2>5. \A t \in Targets : \A i \in Lines(d, ImportOf(t)) : i - 0 \in Lines(c, ImportOf(t))
    BY <1>2, <1>4, <2>3 DEF Lines
  <2>6. d \in NativeContents
    BY <2>2 DEF NativeContents
  <2>7. ProperBridges(p, d, a)
    <3>1. ASSUME Delimited(c), NEW i \in Blocks(d), i > 1
          PROVE  d[i - 1] = NL
      <4>1. i \in DOMAIN d /\ d[i].kind = "block"
        BY DEF Blocks, Places
      <4>2. i - 0 \in DOMAIN c /\ d[i] = c[i - 0]
        BY <2>4, <4>1 DEF IsBridge
      <4>3. i \in 1..Len(c) /\ c # <<>> /\ Len(c) \in Nat
        BY <1>2, <1>4, <2>2, <4>1, <4>2, LenProperties
      <4>4. i \in Blocks(c) /\ i - 1 \in 1..Len(c)
        BY <3>1, <4>1, <4>2, <4>3 DEF Blocks, Places
      <4>5. c[i - 1] = NL
        BY <3>1, <4>4 DEF Delimited
      <4> QED
        BY <2>2, <4>3, <4>4, <4>5
    <3>2. Delimited(c) => Delimited(d)
      BY <3>1 DEF Delimited
    <3> QED
      BY <1>1, <1>4, <2>4, <2>5, <2>6, <3>2, MovedBridges
  <2>8. FileContent(file) = d
    BY <2>1, <2>6, MarkersAssumption DEF FileContent
  <2> QED
    BY <2>1, <2>6, <2>7, <2>8 DEF a
<1>9. CASE how \in {"delete", "empty"}
  <2>1. file \in {MISSING, <<>>}
    BY <1>9 DEF Edited
  <2>2. FileContent(file) = <<>>
    BY <2>1 DEF FileContent
  <2> QED
    BY <1>3, <1>6, <2>1, <2>2 DEF a
<1>10. CASE how = "strip"
  <2>1. file = IF Stripped(c) = <<>> THEN MISSING ELSE Stripped(c)
    BY <1>10 DEF Edited, c
  <2>2. PICK d : d = Stripped(c)
    OBVIOUS
  <2>3. d \in Seq(Tokens) /\ \A j \in DOMAIN d : ~IsBridge(d[j])
    BY <1>2, <2>2, StrippedProperties
  <2>4. d \in NativeContents
    BY <2>3 DEF NativeContents
  <2>5. FileContent(file) = d
    BY <2>1, <2>2, <2>4, MarkersAssumption DEF FileContent
  <2> QED
    BY <1>6, <2>1, <2>2, <2>3, <2>4, <2>5 DEF a
<1> QED
  BY <1>5, <1>7, <1>8, <1>9, <1>10

\* Whatever the user does to a file, its bridges stay as many.
LEMMA EditKeepsInv ==
    ASSUME AdaptersInv, NEW p \in Paths, NEW how \in Edits, Edit(p, how)
    PROVE  AdaptersInv'
<1>1. PICK file : file = Edited(p, how)
  OBVIOUS
<1>2. /\ edits < MaxEdits /\ files' = [files EXCEPT ![p] = file]
      /\ edits' = edits + 1 /\ UNCHANGED <<integrations, original>>
  BY <1>1 DEF Edit
<1>3. /\ file \in NativeContents \cup {MISSING}
      /\ ProperBridges(p, FileContent(file), integrations[p])
  BY <1>1, <1>2, EditedProper
<1>4. files \in [Paths -> NativeContents \cup {MISSING}] /\ edits \in 0..MaxEdits
      /\ \A q \in Paths : ProperFile(q, files[q], integrations[q])
  BY DEF AdaptersInv
<1>5. files' \in [Paths -> NativeContents \cup {MISSING}]
  BY <1>2, <1>3, <1>4
<1>6. edits' \in 0..MaxEdits /\ edits' # 0
  BY <1>2, <1>4, EditsAreBounded
<1>7. ASSUME NEW q \in Paths
      PROVE  ProperFile(q, files[q], integrations[q])'
  <2>1. ProperArtifact(q, integrations[q])
    BY <1>4 DEF ProperFile
  <2>2. ProperBridges(q, FileContent(files'[q]), integrations[q])
    <3>1. CASE q = p
      BY <1>2, <1>3, <1>4, <3>1
    <3>2. CASE q # p
      BY <1>2, <1>4, <3>2 DEF ProperFile
    <3> QED
      BY <3>1, <3>2
  <2>3. ProperBridges(q, FileContent(files[q]), integrations[q])'
    BY <1>2, <2>2 DEF ProperBridges
  <2>4. files'[q] \in NativeContents \cup {MISSING}
    BY <1>5
  <2>5. ProperArtifact(q, integrations[q])'
    BY <1>2, <2>1
  <2> QED
    BY <1>6, <2>3, <2>4, <2>5 DEF ProperFile
<1>8. ValidManifest(integrations)'
  BY <1>2 DEF AdaptersInv, ValidManifest
<1> QED
  BY <1>2, <1>5, <1>6, <1>7, <1>8 DEF AdaptersInv

\* The files before UAWP, one with a bridge by hand included.
LEMMA InitKeepsInv == AdaptersInit => AdaptersInv
<1> SUFFICES ASSUME AdaptersInit PROVE AdaptersInv
  OBVIOUS
<1>1. /\ files \in [Paths -> Originals] /\ original = files
      /\ integrations = [p \in Paths |-> NULL] /\ edits = 0
      /\ \A p \in Paths : files[p] = ByHand => p = Claude
  BY DEF AdaptersInit, Originals
<1>2. ASSUME NEW p \in Paths
      PROVE  ProperFile(p, files[p], integrations[p])
  <2>1. PICK c : c = FileContent(files[p])
    OBVIOUS
  <2>2. /\ c \in NativeContents /\ Blocks(c) = {}
        /\ files[p] # ByHand => Places(c, "import") = {}
    BY <1>1, <2>1, OriginalContent
  <2>3. files[p] \in NativeContents \cup {MISSING}
    BY <2>1, <2>2 DEF FileContent
  <2>4. CASE files[p] # ByHand
    <3>1. \A t : Lines(c, ImportOf(t)) = {}
      BY <2>2, <2>4, Kinds DEF Lines, Places
    <3>2. \A t : ImportPossible(c, t) /\ ~Imports(c, t)
      BY <3>1 DEF ImportPossible, Imports
    <3> QED
      BY <1>1, <2>1, <2>2, <2>3, <2>4, <3>2
      DEF ProperFile, ProperArtifact, ProperBridges, Delimited, Pristine
  <2>5. CASE files[p] = ByHand
    <3>1. c = <<Line(0), NL, ImportOf(Instructions)>>
      <4>1. c = ByHand
        <5>1. Line(0) \in Tokens /\ NL \in Tokens /\ ImportOf(Instructions) \in Tokens
          <6>1. 0 \in 0..MaxEdits
            BY EditsAreBounded
          <6> QED
            BY <6>1, TokensOfBridges DEF Targets
        <5>2. ByHand \in NativeContents
          BY <5>1 DEF NativeContents, ByHand
        <5> QED
          BY <2>1, <2>5, <5>2, MarkersAssumption DEF FileContent
      <4> QED
        BY <4>1 DEF ByHand
    <3>2. \A t : ImportOf(t) # Line(0) /\ ImportOf(t) # NL
      BY Kinds
    <3>3. DOMAIN c = {1, 2, 3} /\ c[1] = Line(0) /\ c[2] = NL /\ c[3] = ImportOf(Instructions)
      BY <3>1
    <3>4. \A t : \A i \in Lines(c, ImportOf(t)) : i = 3 /\ ImportOf(t) = ImportOf(Instructions)
      BY <3>2, <3>3 DEF Lines
    <3>5. \A t : ImportPossible(c, t) /\ (Imports(c, t) => t = Instructions)
      BY <3>4 DEF ImportPossible, Imports, ImportOf
    <3> QED
      BY <1>1, <2>1, <2>2, <2>3, <2>5, <3>5
      DEF ProperFile, ProperArtifact, ProperBridges, Pristine
  <2> QED
    BY <2>4, <2>5
<1>3. files \in [Paths -> NativeContents \cup {MISSING}]
  BY <1>1, <1>2 DEF ProperFile
<1>4. integrations \in [Paths -> Artifacts \cup {NULL}] /\ ValidManifest(integrations)
  BY <1>1 DEF ValidManifest
<1>5. edits \in 0..MaxEdits
  BY <1>1, EditsAreBounded
<1> QED
  BY <1>1, <1>2, <1>3, <1>4, <1>5 DEF AdaptersInv
===============================================================================
