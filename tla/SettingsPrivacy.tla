--------------------------- MODULE SettingsPrivacy ---------------------------
(* What is taken out of a mod's settings file before it is shared            *)
(* (settings_privacy.rs): the file is read as a tree of positions, each      *)
(* field to go becomes an edit of the text, and the edits are made from the  *)
(* end. A file is a sequence of marks, brackets, commas, line breaks and     *)
(* comments among them, as a mod writes it: it grows mark by mark, so that   *)
(* files cut off anywhere are read too.                                      *)
EXTENDS Naturals, Sequences, SequencesExt, FiniteSets

CONSTANTS
    KeyMarks,     \* names of fields, a subset of {"plain:", "auth:", "pass:", "hotkey:"}
    LeafMarks,    \* values, a subset of {"words", "path", "F3", "7", "true"}
    MaxMarks,     \* bound: the length of a file
    MaxDepth      \* the deepest nesting that is read

VARIABLE text

NoTree == [kind |-> "unread"]

-----------------------------------------------------------------------------
(* Reading: Scan. *)

\* space: the first mark from i on that is neither a break nor a comment.
Space(t, i) ==
    LET solid == {j \in i..Len(t) : t[j] \notin {"nl", "/**/"}}
    IN IF solid = {} THEN Len(t) + 1 ELSE CHOOSE j \in solid : \A k \in solid : j <= k

Unread == [tree |-> NoTree, next |-> 0]
MarkAt(t, i) == IF i <= Len(t) THEN t[i] ELSE "end"

RECURSIVE ValueAt(_, _, _), Members(_, _, _, _, _), Items(_, _, _, _, _)

\* value: an object, a list or a leaf, refusing to nest too deep.
ValueAt(t, i, depth) ==
    IF MarkAt(t, i) \in {"{", "["} /\ depth >= MaxDepth THEN Unread
    ELSE IF MarkAt(t, i) = "{" THEN Members(t, i, i + 1, depth + 1, <<>>)
    ELSE IF MarkAt(t, i) = "[" THEN Items(t, i, i + 1, depth + 1, <<>>)
    ELSE IF MarkAt(t, i) \in LeafMarks \union {"blank"}
         THEN [tree |-> [kind |-> "leaf", leaf |-> t[i]], next |-> i + 1]
    ELSE Unread

\* A trailing comma is allowed.
Members(t, open, i, depth, sofar) ==
    LET start == Space(t, i)
        value == ValueAt(t, Space(t, start + 1), depth)
        after == Space(t, value.next)
        all == Append(sofar, [key |-> t[start], start |-> start, end |-> value.next,
                              value |-> value.tree])
        closed(ms, at) == [tree |-> [kind |-> "object", open |-> open, close |-> at, members |-> ms],
                           next |-> at + 1]
    IN IF MarkAt(t, start) = "}" THEN closed(sofar, start)
       ELSE IF MarkAt(t, start) \notin KeyMarks \/ value.tree = NoTree THEN Unread
       ELSE IF MarkAt(t, after) = "," THEN Members(t, open, after + 1, depth, all)
       ELSE IF MarkAt(t, after) = "}" THEN closed(all, after) ELSE Unread

Items(t, open, i, depth, sofar) ==
    LET start == Space(t, i)
        value == ValueAt(t, start, depth)
        after == Space(t, value.next)
        all == Append(sofar, [start |-> start, end |-> value.next, value |-> value.tree])
        closed(is, at) == [tree |-> [kind |-> "list", items |-> is], next |-> at + 1]
    IN IF MarkAt(t, start) = "]" THEN closed(sofar, start)
       ELSE IF value.tree = NoTree THEN Unread
       ELSE IF MarkAt(t, after) = "," THEN Items(t, open, after + 1, depth, all)
       ELSE IF MarkAt(t, after) = "]" THEN closed(all, after) ELSE Unread

\* read_tree: the value, and nothing after it.
ReadTree(t) ==
    LET value == ValueAt(t, Space(t, 1), 0)
    IN IF value.tree = NoTree \/ Space(t, value.next) <= Len(t) THEN NoTree ELSE value.tree

\* json_problem.
Shareable(t) == ReadTree(t).kind = "object"

-----------------------------------------------------------------------------
(* Which fields go. *)

IsText(v) == v.kind = "leaf" /\ v.leaf \in {"words", "path", "F3", "blank"}
TextIsPrivate(v) == v.kind = "leaf" /\ v.leaf = "path"

\* never_shared: under a name that ends as a secret's does, all but true,
\* nothing, and, where a hotkey may stand, a key binding.
RECURSIVE Holds(_, _)
Holds(v, hotkeyName) ==
    IF v.kind = "leaf" THEN v.leaf \in {"words", "path", "7"} \/ (v.leaf = "F3" /\ ~hotkeyName)
    ELSE IF v.kind = "object" THEN \E i \in DOMAIN v.members : Holds(v.members[i].value, hotkeyName)
    ELSE \E i \in DOMAIN v.items : Holds(v.items[i].value, hotkeyName)

\* Mutant: a secret inside a list or an object is not seen.
TextOnly(m) ==
    /\ m.key \in {"pass:", "hotkey:"}
    /\ m.value.kind = "leaf" /\ Holds(m.value, m.key = "hotkey:")

NeverShared(m) == m.key \in {"pass:", "hotkey:"} /\ Holds(m.value, m.key = "hotkey:")

\* The other fields worth taking out, unless the user keeps them.
Flagged(m) ==
    \/ m.key # "plain:" /\ IsText(m.value) /\ m.value.leaf \in {"words", "path"}
    \/ TextIsPrivate(m.value)

Goes(m, keep) == NeverShared(m) \/ (Flagged(m) /\ ~keep)

-----------------------------------------------------------------------------
(* walk_tree: each field taken out as an edit [from, to), and each text in a *)
(* list that is private as one that empties it.                              *)

\* The runs of neighbouring fields taken out.
Runs(gone) ==
    {r \in gone \X gone : r[1] <= r[2] /\ (r[1]..r[2]) \subseteq gone
                          /\ r[1] - 1 \notin gone /\ r[2] + 1 \notin gone}

\* To the end of the object, where the line break before the brace stays.
TailEnd(t, end, close) ==
    IF close - 1 >= end /\ t[close - 1] = "nl" THEN close - 1 ELSE close

RunEdit(t, tree, first, last) ==
    IF last < Len(tree.members)
    THEN [from |-> tree.members[first].start, to |-> tree.members[last + 1].start, put |-> ""]
    ELSE [from |-> tree.members[first - 1].end,
          to |-> TailEnd(t, tree.members[last].end, tree.close), put |-> ""]

RECURSIVE Edits(_, _, _)
Edits(t, tree, keep) ==
    IF tree.kind = "object"
    THEN LET gone == {i \in DOMAIN tree.members : Goes(tree.members[i], keep)}
             below == UNION {Edits(t, tree.members[i].value, keep) : i \in DOMAIN tree.members \ gone}
         IN IF gone = {} THEN below
            ELSE IF gone = DOMAIN tree.members
            THEN {[from |-> tree.open + 1, to |-> tree.close, put |-> ""]}
            ELSE below \union {RunEdit(t, tree, r[1], r[2]) : r \in Runs(gone)}
    ELSE IF tree.kind = "list"
    THEN UNION {IF ~TextIsPrivate(item.value) THEN Edits(t, item.value, keep)
                ELSE IF keep THEN {} ELSE {[from |-> item.start, to |-> item.end, put |-> "blank"]}
                : item \in ToSet(tree.items)}
    ELSE {}

\* redact_settings: <<>> stands for a file that is refused.
Redacted(t, keep) ==
    LET edits == Edits(t, ReadTree(t), keep)
        at(i) == {e \in edits : e.from <= i /\ i < e.to}
        put(i) == {e \in at(i) : e.from = i /\ e.put # ""}
    IN IF ~Shareable(t) THEN <<>>
       ELSE FlattenSeq([i \in 1..Len(t) |->
                          IF at(i) = {} THEN <<t[i]>>
                          ELSE IF put(i) = {} THEN <<>> ELSE <<"blank">>])

\* settings_warnings, which reads strict JSON field by field.
RECURSIVE Warned(_)
Warned(tree) ==
    CASE tree.kind = "object" ->
           \E i \in DOMAIN tree.members :
              (tree.members[i].key # "plain:" /\ IsText(tree.members[i].value)
                 /\ tree.members[i].value.leaf # "blank") \/ Warned(tree.members[i].value)
      [] tree.kind = "list" -> \E i \in DOMAIN tree.items : Warned(tree.items[i].value)
      [] OTHER -> TextIsPrivate(tree)

-----------------------------------------------------------------------------
(* A file as a mod writes it, mark by mark. *)

\* The brackets open at the end of t, innermost last.
RECURSIVE OpenAfter(_)
OpenAfter(t) ==
    IF t = <<>> THEN <<>>
    ELSE LET before == OpenAfter(Front(t)) IN
         IF Last(t) \in {"{", "["} THEN Append(before, Last(t))
         ELSE IF Last(t) \in {"}", "]"} THEN Front(before) ELSE before

Follows(t) ==
    LET open == OpenAfter(t)
        solid == SelectSeq(t, LAMBDA m : m \notin {"nl", "/**/"})
        last == IF solid = <<>> THEN "," ELSE Last(solid)
        values == LeafMarks \union {"{", "["}
        inObject == open # <<>> /\ Last(open) = "{"
        spaces == IF t # <<>> /\ Last(t) \notin {"nl", "/**/"} /\ last \notin KeyMarks
                  THEN {"nl", "/**/"} ELSE {}
    IN IF t = <<>> THEN {"{"}
       ELSE IF open = <<>> THEN {}
       ELSE IF last \in KeyMarks THEN values
       ELSE spaces \union
            (IF last \in {"{", "[", ","}
             THEN IF inObject THEN KeyMarks \union {"}"} ELSE values \union {"]"}
             ELSE {",", IF inObject THEN "}" ELSE "]"})

TextInit == text = <<>>

WriteMark(mark) ==
    /\ Len(text) < MaxMarks
    /\ mark \in Follows(text)
    /\ text' = Append(text, mark)

TextNext == \E mark \in KeyMarks \union LeafMarks \union {"{", "}", "[", "]", ",", "nl", "/**/"} :
              WriteMark(mark)

-----------------------------------------------------------------------------
\* The tree without positions, and without the fields that go.
RECURSIVE Bare(_, _)
Bare(tree, keep) ==
    CASE tree.kind = "object" ->
           LET stays == SelectSeq(tree.members, LAMBDA m : ~Goes(m, keep))
           IN [kind |-> "object",
               members |-> [i \in DOMAIN stays |-> <<stays[i].key, Bare(stays[i].value, keep)>>]]
      [] tree.kind = "list" ->
           [kind |-> "list", members |-> [i \in DOMAIN tree.items |-> Bare(tree.items[i].value, keep)]]
      [] OTHER -> [kind |-> "leaf",
                   members |-> IF TextIsPrivate(tree) /\ ~keep THEN "blank" ELSE tree.leaf]

\* Every value with the names it is under.
RECURSIVE Leaves(_, _)
Leaves(tree, names) ==
    CASE tree.kind = "object" ->
           UNION {Leaves(m.value, names \union {m.key}) : m \in ToSet(tree.members)}
      [] tree.kind = "list" -> UNION {Leaves(item.value, names) : item \in ToSet(tree.items)}
      [] OTHER -> {<<names, tree.leaf>>}

\* What is shared can still be read, and is the file without the fields taken
\* out, in the same order (settings_privacy.rs:8-11).
OnlyThoseGo ==
    Shareable(text) =>
      \A keep \in BOOLEAN :
        LET shared == ReadTree(Redacted(text, keep))
        IN shared # NoTree /\ Bare(shared, TRUE) = Bare(ReadTree(text), keep)

\* No password leaves, however it is nested, whatever the user keeps
\* (bundle.rs:711-713); and no path does that the user did not choose to.
NothingSecretLeaves ==
    \A keep \in BOOLEAN :
      LET shared == ReadTree(Redacted(text, keep)) IN
      shared # NoTree =>
        \A leaf \in Leaves(shared, {}) :
          /\ "pass:" \in leaf[1] => leaf[2] \in {"true", "blank"}
          /\ "hotkey:" \in leaf[1] => leaf[2] \in {"true", "blank", "F3"}
          /\ ~keep => leaf[2] # "path"

\* A comment that follows a field taken out goes with it: it may repeat the
\* value (settings_privacy.rs:371).
NoEchoStays ==
    \A keep \in BOOLEAN :
      LET edits == Edits(text, ReadTree(text), keep)
          gone == {i \in DOMAIN text : \E e \in edits : e.put = "" /\ e.from <= i /\ i < e.to}
          before(i) == {j \in 1..i : text[j] \notin {"nl", "/**/", ","}}
      IN Shareable(text) =>
           \A i \in DOMAIN text :
             text[i] = "/**/" /\ (\E j \in before(i) : j \in gone /\ \A k \in before(i) : k <= j)
               => i \in gone

\* The user was warned about every file whose fields are taken out at their
\* choice (settings_privacy.rs:516).
WarnedFirst ==
    LET strict == \A i \in DOMAIN text :
                    /\ text[i] # "/**/"
                    /\ text[i] = "," => MarkAt(text, Space(text, i + 1)) \notin {"}", "]"}
    IN Shareable(text) /\ strict /\ Redacted(text, FALSE) # Redacted(text, TRUE)
         => Warned(ReadTree(text))

\* A shared settings file is still that file, with nothing private in it.
SharedIsSafe == OnlyThoseGo /\ NothingSecretLeaves /\ NoEchoStays /\ WarnedFirst
=============================================================================
