------------------------------- MODULE LittleText ------------------------------
(***************************************************************************)
(* The text of a LinkedIn post (social/linkedin.rs), character by          *)
(* character: what corky strips and escapes, and what LinkedIn, which is   *)
(* external, shows of it.  LinkedIn cuts a text at the first reserved      *)
(* character that is not escaped.                                          *)
(***************************************************************************)
EXTENDS Naturals, SequencesExt, Positions

\* "*" may be of a bold marker, "tick" is a backtick, "esc" the backslash and "#" any
\* other reserved character.
Chars == {"a", "*", "tick", "#", "esc"}
Reserved == {"esc", "*", "#"}

\* A marker is replaced by nothing from the left to the right: of a run of "*" the last
\* stays if their number is odd.
WithoutBold(s) ==
    At(s, {i \in DOMAIN s : s[i] = "*" => /\ (i - RunStart(s, i)) % 2 = 0
                                          /\ i < Len(s) => s[i + 1] # "*"})

\* strip_linkedin_markdown: first the backticks, then the bold markers that are left.  The
\* markers of italics stay, although its comment names them.
WithoutTicks(s) == At(s, {i \in DOMAIN s : s[i] # "tick"})
Stripped(s) == WithoutBold(WithoutTicks(s))

\* escape_little_text.
Escaped(s) ==
    FlattenSeq([i \in DOMAIN s |-> IF s[i] \in Reserved THEN <<"esc", s[i]>> ELSE <<s[i]>>])

\* Mutant: the markers are stripped from the text that is escaped already.
CommentaryEscapedFirst(s) == Stripped(Escaped(s))

Commentary(s) == Escaped(Stripped(s))

\* A backslash escapes the next character, unless it is escaped itself.
Escapes(s, i) == s[i] = "esc" /\ (i - RunStart(s, i)) % 2 = 0
IsEscaped(s, i) == i > 1 /\ Escapes(s, i - 1)

\* What LinkedIn shows of a commentary.
Cuts(s) ==
    {i \in DOMAIN s : /\ s[i] \in Reserved /\ ~ IsEscaped(s, i)
                      /\ ~ (Escapes(s, i) /\ i < Len(s))}
Shown(s) == At(s, {i \in DOMAIN s : ~ Escapes(s, i) /\ \A j \in Cuts(s) : i < j})

-----------------------------------------------------------------------------
(* What a reader expects to see *)

\* The characters that can be of no marker.
Words(s) == At(s, {i \in DOMAIN s : s[i] \notin {"tick", "*"}})

\* There is a backtick or a bold marker.
HasMarkers(s) ==
    \E i \in DOMAIN s : s[i] = "tick" \/ (s[i] = "*" /\ i < Len(s) /\ s[i + 1] = "*")
=============================================================================
