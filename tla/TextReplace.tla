----------------------------- MODULE TextReplace -----------------------------
(***************************************************************************)
(* The matching contract of workspace.replace (src/execution/              *)
(* text-replace.ts), which every rung applies to the text of a file: an    *)
(* exact, unique match, or else a unique match that ignores indentation.   *)
(*                                                                         *)
(* A text is a sequence of lines, a line its indentation and its word, and *)
(* the last line is empty when the text ends with a newline.  White space  *)
(* is a width, and a line of nothing else is the empty line.               *)
(***************************************************************************)
EXTENDS Integers, Sequences, FiniteSets, FiniteSetsExt, SequencesExt

CONSTANTS
    Words,       \* what is on a line, without its indentation
    NoWord,      \* ... of the empty line
    MaxIndent, MaxText, MaxBlock   \* sizes of indentations, of texts and of blocks

VARIABLES text, asked, before   \* the file, the edit asked for and the file before it
textVars == <<text, asked, before>>

EmptyLine == [indent |-> 0, word |-> NoWord]
Lines == [indent : 0..MaxIndent, word : Words] \cup {EmptyLine}
IsBlank(line) == line.word = NoWord
Blocks(n) == UNION {[1..k -> Lines] : k \in 1..n}

EndsWithNewline(t) == Len(t) > 1 /\ IsBlank(Last(t))

\* old_text begins with a word, and ends with a newline exactly if new_text does.
Requests == {e \in Blocks(MaxBlock) \X Blocks(MaxBlock) :
                ~IsBlank(e[1][1]) /\ (EndsWithNewline(e[1]) <=> EndsWithNewline(e[2]))}

TextInit == text \in Blocks(MaxText) /\ asked = << >> /\ before = << >>

-----------------------------------------------------------------------------
(* Exact matches: old is a substring of the text.                              *)

\* The first line of old may start within a line, and the last may end within one.
OccursAt(t, old, i) ==
    /\ i + Len(old) - 1 <= Len(t)
    /\ t[i].word = old[1].word /\ t[i].indent >= old[1].indent
    /\ \A k \in 2..Len(old) : t[i + k - 1] = old[k] \/ (k = Len(old) /\ IsBlank(old[k]))

\* content.split(oldText): occurrences from the left that do not overlap.
Occurrences(t, old) ==
    LET width == IF EndsWithNewline(old) THEN Len(old) - 1 ELSE Len(old)
        count[i \in 1..(Len(t) + width)] ==
            IF i > Len(t) THEN 0
            ELSE IF OccursAt(t, old, i) THEN 1 + count[i + width] ELSE count[i + 1]
    IN  count[1]

\* content.replace: the first occurrence gives way to new, in place.
ReplaceExact(t, old, new) ==
    LET i == CHOOSE j \in 1..Len(t) : OccursAt(t, old, j) /\ \A k \in 1..(j - 1) : ~OccursAt(t, old, k)
        first == IF IsBlank(new[1]) THEN EmptyLine ELSE [new[1] EXCEPT !.indent = @ + t[i].indent - old[1].indent]
        lines == <<first>> \o Tail(new)
    IN  SubSeq(t, 1, i - 1) \o
        (IF EndsWithNewline(old) THEN Front(lines) \o SubSeq(t, i + Len(old) - 1, Len(t))
                                 ELSE lines \o SubSeq(t, i + Len(old), Len(t)))

-----------------------------------------------------------------------------
(* The match that ignores indentation.                                         *)

FirstIndent(lines) ==
    LET words == {k \in DOMAIN lines : ~IsBlank(lines[k])} IN IF words = {} THEN 0 ELSE lines[Min(words)].indent

\* Mutated: every line gets the block's indentation.
ReindentFlat(new, target) ==
    [k \in DOMAIN new |-> IF IsBlank(new[k]) THEN EmptyLine ELSE [new[k] EXCEPT !.indent = target]]

Reindent(new, target) ==
    LET source == FirstIndent(new) IN
    [k \in DOMAIN new |->
        IF IsBlank(new[k]) THEN EmptyLine
        ELSE [new[k] EXCEPT !.indent = IF @ >= source THEN target + @ - source ELSE target]]

OldLines(old) == IF EndsWithNewline(old) THEN Front(old) ELSE old

Starts(t, lines) ==
    {i \in 1..(Len(t) + 1 - Len(lines)) : \A k \in DOMAIN lines : t[i + k - 1].word = lines[k].word}

ReplaceIgnoringIndentation(t, old, new) ==
    LET lines == OldLines(old)
        i == Min(Starts(t, lines))
        block == SubSeq(t, i, i + Len(lines) - 1)
    IN  SubSeq(t, 1, i - 1) \o Reindent(new, FirstIndent(block)) \o SubSeq(t, i + Len(lines), Len(t))

-----------------------------------------------------------------------------

\* replaceInText: the new text, or the old one when the edit is refused.
ReplaceInText(t, old, new) ==
    CASE Occurrences(t, old) = 1 -> ReplaceExact(t, old, new)
      [] Occurrences(t, old) = 0 /\ Cardinality(Starts(t, OldLines(old))) = 1 -> ReplaceIgnoringIndentation(t, old, new)
      [] OTHER -> t

Replace(old, new) ==
    /\ asked' = <<old, new>> /\ before' = text
    /\ text' = ReplaceInText(text, old, new)

TextNext == asked = << >> /\ \E e \in Requests : Replace(e[1], e[2])

-----------------------------------------------------------------------------
WordsOf(t) == [k \in DOMAIN t |-> t[k].word]

\* An edit changes one block, the lines of which are old_text but for their
\* indentation: the words of new_text stand in its place, the lines around it are
\* as they were, and the lines of new_text keep their indentation relative to
\* each other when they were not matched exactly.
ChangesOneBlock ==
    asked # << >> /\ text # before =>
        LET old == OldLines(asked[1])
            exact == Occurrences(before, asked[1]) > 0
            new == IF exact THEN OldLines(asked[2]) ELSE asked[2]
        IN  \E i \in Starts(before, old) :
               LET block == SubSeq(text, i, i + Len(new) - 1) IN
               /\ WordsOf(block) = WordsOf(new)
               /\ text = SubSeq(before, 1, i - 1) \o block \o SubSeq(before, i + Len(old), Len(before))
               /\ exact \/ \A j, k \in DOMAIN new :
                     ~IsBlank(new[j]) /\ ~IsBlank(new[k]) /\ new[j].indent >= FirstIndent(new) /\ new[k].indent >= FirstIndent(new)
                        => block[j].indent - block[k].indent = new[j].indent - new[k].indent

\* An edit of a text in which old_text stands at two places that share no line,
\* or in no place exactly and in two but for the indentation, is refused.
RefusesAmbiguity ==
    asked # << >> =>
        LET old == OldLines(asked[1])
            at == {i \in DOMAIN before : OccursAt(before, asked[1], i)}
        IN  \/ \E i, j \in at : j - i >= Len(old)
            \/ at = {} /\ Cardinality(Starts(before, old)) # 1
            => text = before

\* An edit (replaceInText) replaces one block and leaves every other line as it
\* was, and the tolerant match never settles an ambiguity (the contract at the
\* head of text-replace.ts).
EditIsLocal == ChangesOneBlock /\ RefusesAmbiguity
=============================================================================
