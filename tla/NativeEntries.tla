--------------------------- MODULE NativeEntries ---------------------------
(***************************************************************************)
(* What UAWP writes into the files other programs read their instructions  *)
(* from, as operators: a managed block, or an import line.                 *)
(*                                                                         *)
(* A file is a sequence of tokens: line breaks, the user's lines, blocks   *)
(* and imports.  Code fences, CRLF and markers a user types himself are    *)
(* left out.                                                               *)
(***************************************************************************)
EXTENDS Naturals, Sequences

NL == [kind |-> "newline"]
Line(n) == [kind |-> "line", user |-> n]
BlockOf(id, consumers) == [kind |-> "block", id |-> id, consumers |-> consumers]
ImportOf(target) == [kind |-> "import", target |-> target]

Places(content, kind) == {i \in DOMAIN content : content[i].kind = kind}
Only(S) == CHOOSE i \in S : \A j \in S : i = j
Cut(content, from, to) == SubSeq(content, 1, from - 1) \o SubSeq(content, to + 1, Len(content))
Appended(content, token) == (IF content = <<>> THEN <<>> ELSE Append(content, NL)) \o <<token>>

(* Without any bridge, nor the line break that came with it. *)
IsBridge(token) == token.kind \in {"block", "import"}
Undelimited(content) ==
    IF content # <<>> /\ content[Len(content)] = NL
    THEN SubSeq(content, 1, Len(content) - 1) ELSE content
Stripped(content) ==
    LET Kept[i \in 0..Len(content)] ==
            IF i = 0 THEN <<>>
            ELSE IF IsBridge(content[i]) THEN Undelimited(Kept[i - 1])
                 ELSE Append(Kept[i - 1], content[i])
    IN Kept[Len(content)]

-----------------------------------------------------------------------------
(* Managed blocks.  A file may have one. *)

Blocks(content) == Places(content, "block")

UpsertPossible(content, block) ==
    Blocks(content) = {} \/ \E i \in Blocks(content) : Blocks(content) = {i} /\ content[i] = block
UpsertManagedBlock(content, block) ==
    IF Blocks(content) = {} THEN Appended(content, block) ELSE content

RemovePossible(content, block) ==
    \E i \in Blocks(content) : Blocks(content) = {i} /\ content[i] = block
\* Mutant: the line break stays.
RemoveBlockAlone(content) ==
    LET at == Only(Blocks(content)) IN Cut(content, at, at)

(* The block goes with what stands before it: the line break it came with,  *)
(* or whatever byte the user put in its place.                              *)
RemoveManagedBlock(content) ==
    LET at == Only(Blocks(content)) IN Cut(content, IF at = 1 THEN 1 ELSE at - 1, at)

(* OutsideSHA256 is taken of what such a removal would leave.               *)
Outside(content) == IF Blocks(content) = {} THEN content ELSE RemoveManagedBlock(content)

-----------------------------------------------------------------------------
(* Imports: a line of its own, at most once. *)

Lines(content, token) ==
    {i \in DOMAIN content :
        /\ content[i] = token
        /\ i > 1 => content[i - 1] = NL
        /\ i < Len(content) => content[i + 1] = NL}

ImportPossible(content, target) == \A i, j \in Lines(content, ImportOf(target)) : i = j
Imports(content, target) == Lines(content, ImportOf(target)) # {}

UpsertImport(content, target) ==
    IF Imports(content, target) THEN content ELSE Appended(content, ImportOf(target))

(* The line goes with its line break and with the one before it.            *)
RemoveImport(content, target) ==
    IF ~Imports(content, target) THEN content
    ELSE LET at == Only(Lines(content, ImportOf(target)))
         IN Cut(content, IF at = 1 THEN 1 ELSE at - 1,
                         IF at = Len(content) THEN at ELSE at + 1)
=============================================================================
