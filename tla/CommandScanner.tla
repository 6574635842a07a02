--------------------------- MODULE CommandScanner ---------------------------
(***************************************************************************)
(* The scanner of query commands (query/command_scanner.cpp): the tables   *)
(* and the driver flex generated, for a command in memory. A text is a     *)
(* sequence of character classes, the numbers yy_ec maps characters to;    *)
(* no character of a text is NUL, so the first NUL is the end. Tables      *)
(* start at 1 where the code's start at 0. yy_hold_char, which takes a     *)
(* character out of the buffer while its token is in use, is left out.     *)
(***************************************************************************)
EXTENDS Integers, Sequences, SequencesExt, FiniteSets

CONSTANTS
    FirstTexts,  \* the texts scanned first
    LaterTexts,  \* the texts scanned after another one
    MaxScans     \* bound on the number of texts

VARIABLES
    yy_ch_buf,         \* the text, followed by two end-of-buffer characters
    yy_cp,             \* the character that is read next
    yytext,            \* where the token starts
    yy_current_state,
    last_accepting,    \* yy_last_accepting_state and _cpos: static, never reset
    lexemes,           \* history: rule, first and last character of what was matched
    scans,             \* how many texts were scanned
    lexPc

scanner == <<yy_ch_buf, yy_cp, yytext, yy_current_state, last_accepting, lexemes, scans, lexPc>>

-----------------------------------------------------------------------------
(* The tables.                                                             *)

yy_accept == <<0,0,0,37,35,32,34,35,33,12,3,4,10,9,27,25,8,7,11,35,5,6,35,
  35,35,35,35,35,1,13,2,32,0,31,33,0,0,27,25,27,0,27,25,0,26,26,26,26,
  26,26,26,26,26,26,26,26,0,0,27,30,26,15,26,21,26,26,26,26,14,26,26,0,
  0,26,26,19,26,22,24,26,26,0,29,23,17,18,16,20,0,28,0>>
yy_meta == <<0,1,1,2,1,1,1,1,1,1,3,3,3,1,1,1,3,1,1,3,3,3,3,3,3,3,3,3,
  3,3,3,3,3,3,3,3,1,1,1>>
yy_base == <<0,0,0,133,134,130,134,127,0,134,134,134,30,32,118,36,134,134,134,
  0,134,134,101,25,101,104,96,31,134,134,134,123,120,134,0,50,55,111,41,110,
  109,56,60,108,0,86,89,89,94,89,86,79,84,82,82,89,65,68,70,96,80,0,76,0,
  76,72,80,67,0,71,70,74,86,59,52,0,47,0,0,34,26,76,45,0,0,0,0,0,80,81,
  134,93,96,37>>
yy_def == <<0,90,1,90,90,90,90,91,92,90,90,90,90,90,90,90,90,90,90,93,90,
  90,93,93,93,93,93,93,90,90,90,90,91,90,92,90,90,90,90,90,90,90,90,90,
  93,93,93,93,93,93,93,93,93,93,93,93,90,90,90,90,93,93,93,93,93,93,93,
  93,93,93,93,90,90,93,93,93,93,93,93,93,93,90,90,93,93,93,93,93,90,90,0,
  90,90,90>>
yy_nxt == <<0,4,5,6,7,8,9,10,11,12,13,14,15,16,17,18,19,20,21,4,19,22,23,
  24,25,19,19,19,19,26,19,27,19,19,19,19,28,29,30,35,44,36,35,37,38,35,
  40,41,42,43,46,51,37,38,47,52,53,82,87,35,54,36,35,55,56,56,86,56,58,
  35,40,41,42,43,56,85,71,56,72,56,57,71,58,81,84,81,81,88,81,89,89,83,
  89,89,32,32,32,34,82,34,80,79,78,77,76,75,74,73,59,70,69,68,67,66,65,
  64,63,62,61,60,59,57,39,39,33,31,50,49,48,45,39,33,31,90,3,90,90,90,90,
  90,90,90,90,90,90,90,90,90,90,90,90,90,90,90,90,90,90,90,90,90,90,90,
  90,90,90,90,90,90,90,90,90,90,90>>
yy_chk == <<0,1,1,1,1,1,1,1,1,1,1,1,1,1,1,1,1,1,1,1,1,1,1,1,1,1,1,1,
  1,1,1,1,1,1,1,1,1,1,1,12,93,12,12,13,13,15,15,15,15,15,23,27,38,38,
  23,27,27,82,80,35,27,35,35,27,36,41,79,36,41,42,42,42,42,42,56,76,56,
  56,57,58,57,58,58,71,74,81,71,81,81,88,89,73,88,89,91,91,91,92,72,92,
  70,69,67,66,65,64,62,60,59,55,54,53,52,51,50,49,48,47,46,45,43,40,39,
  37,32,31,26,25,24,22,14,7,5,3,90,90,90,90,90,90,90,90,90,90,90,90,90,
  90,90,90,90,90,90,90,90,90,90,90,90,90,90,90,90,90,90,90,90,90,90,90,
  90,90,90>>

JAMBASE == 134
TEMPLATES == 91
YY_END_OF_BUFFER == 37

At(table, i) == table[i + 1]

\* The state after character class c in state s, through the defaults of s.
Move[s \in 0 .. 93, c \in 0 .. 38] ==
  IF At(yy_chk, At(yy_base, s) + c) = s THEN At(yy_nxt, At(yy_base, s) + c)
  ELSE LET d == At(yy_def, s) IN Move[d, IF d >= TEMPLATES THEN At(yy_meta, c) ELSE c]

-----------------------------------------------------------------------------
(* The calls of the parser: scan a text, take tokens, delete the buffer.   *)

ScannerInit ==
  /\ yy_ch_buf = <<>> /\ yy_cp = 1 /\ yytext = 1 /\ yy_current_state = 1
  /\ last_accepting = [state |-> 0, cpos |-> 0]
  /\ lexemes = <<>> /\ scans = 0 /\ lexPc = "no buffer"

command_scan_string(t) ==
  /\ lexPc = "no buffer" /\ scans < MaxScans
  /\ scans' = scans + 1
  /\ yy_ch_buf' = t \o <<0, 0>>
  /\ yy_cp' = 1 /\ yytext' = 1
  /\ lexPc' = "between tokens"
  /\ UNCHANGED <<yy_current_state, last_accepting, lexemes>>

\* The parser is done, at the end of the text or, after an error, before it.
command_delete_buffer ==
  /\ lexPc \in {"between tokens", "end"}
  /\ lexPc' = "no buffer"
  /\ yy_ch_buf' = <<>> /\ lexemes' = <<>>
  /\ UNCHANGED <<yy_cp, yytext, yy_current_state, last_accepting, scans>>

\* One turn of the loop of commandlex starts at character cp.
StartToken(cp) == yytext' = cp /\ yy_current_state' = 1 /\ lexPc' = "match"

commandlex ==
  /\ lexPc = "between tokens"
  /\ StartToken(yy_cp)
  /\ UNCHANGED <<yy_ch_buf, yy_cp, last_accepting, lexemes, scans>>

\* The last accepting state after state s was left at character cp.
Noted(s, cp, last) == IF At(yy_accept, s) # 0 THEN [state |-> s, cpos |-> cp] ELSE last

yy_match ==
  /\ lexPc = "match"
  /\ last_accepting' = Noted(yy_current_state, yy_cp, last_accepting)
  /\ yy_current_state' = Move[yy_current_state, yy_ch_buf[yy_cp]]
  /\ yy_cp' = yy_cp + 1
  /\ lexPc' = IF At(yy_base, yy_current_state') = JAMBASE THEN "find action" ELSE "match"
  /\ UNCHANGED <<yy_ch_buf, yytext, lexemes, scans>>

\* Mutant: the characters read after the last accepting state are lost.
NotBackedUp(last) == [last EXCEPT !.cpos = yy_cp - 1]

BackedUp(last) == last

\* What the text read so far is taken for: if nothing, the scanner backs up.
Match ==
  IF At(yy_accept, yy_current_state) # 0 THEN [state |-> yy_current_state, cpos |-> yy_cp]
  ELSE BackedUp(last_accepting)
yy_act == At(yy_accept, Match.state)

Lexeme == [rule |-> yy_act, first |-> yytext, last |-> Match.cpos - 1]

\* Rules 1 to 31 return a token, the others are skipped, one with a message.
returnToken ==
  /\ lexPc = "find action" /\ yy_act \in 1 .. 31
  /\ yy_cp' = Match.cpos
  /\ lexemes' = Append(lexemes, Lexeme)
  /\ lexPc' = "between tokens"
  /\ UNCHANGED <<yy_ch_buf, yytext, yy_current_state, last_accepting, scans>>

skipText ==
  /\ lexPc = "find action" /\ yy_act \in 32 .. 35
  /\ yy_cp' = Match.cpos
  /\ lexemes' = Append(lexemes, Lexeme)
  /\ StartToken(Match.cpos)
  /\ UNCHANGED <<yy_ch_buf, last_accepting, scans>>

EndOfBuffer == lexPc = "find action" /\ yy_act = YY_END_OF_BUFFER

yyterminate ==
  /\ EndOfBuffer /\ Match.cpos = yytext + 1
  /\ yy_cp' = yytext
  /\ lexPc' = "end"
  /\ UNCHANGED <<yy_ch_buf, yytext, yy_current_state, last_accepting, lexemes, scans>>

\* The characters from yytext to the end of the text, scanned again.
yy_get_previous_state ==
  FoldLeft(LAMBDA p, cp : [state |-> Move[p.state, yy_ch_buf[cp]],
                           last |-> Noted(p.state, cp, p.last)],
           [state |-> 1, last |-> last_accepting],
           [i \in 1 .. Len(yy_ch_buf) - 1 - yytext |-> yytext + i - 1])

\* EOB_ACT_LAST_MATCH: a token ends where the text ends, or before it.
lastMatch ==
  /\ EndOfBuffer /\ Match.cpos > yytext + 1
  /\ yy_cp' = Len(yy_ch_buf) - 1
  /\ yy_current_state' = yy_get_previous_state.state
  /\ last_accepting' = yy_get_previous_state.last
  /\ UNCHANGED <<yy_ch_buf, yytext, lexemes, scans, lexPc>>

ScannerNext ==
  \/ \E t \in IF scans = 0 THEN FirstTexts ELSE LaterTexts : command_scan_string(t)
  \/ commandlex \/ yy_match \/ returnToken \/ skipText \/ yyterminate \/ lastMatch
  \/ command_delete_buffer

-----------------------------------------------------------------------------
(* What the rules of query/command_scanner.ll match: 1 to 13 are signs, 14 *)
(* to 24 keywords.                                                         *)

Blank == 2
Newline == 3
Quote == 4
Hash == 5
Star == 9
Dash == 10
Dot == 11
Digit == 12
Colon == 13
Letters == {16} \cup 20 .. 35
IdCharacters == Letters \cup {Digit, Dash, Dot, 19}

Signs == <<36, 38, 7, 8, 17, 18, 14, Colon, Dash, Star, 15, 6, 37>>

\* sip dip sport dport proto help start end save count show
Keywords ==
  << <<31, 25, 29>>, <<22, 25, 29>>, <<31, 29, 28, 30, 32>>, <<22, 29, 28, 30, 32>>,
     <<29, 30, 28, 32, 28>>, <<24, 23, 26, 29>>, <<31, 32, 20, 30, 32>>, <<23, 27, 22>>,
     <<31, 20, 34, 23>>, <<21, 28, 33, 27, 32>>, <<31, 24, 28, 35>> >>

Of(w, chars) == ToSet(w) \subseteq chars
Number(w) == w # <<>> /\ Of(w, {Digit})
Unsigned(w) == IF w # <<>> /\ Head(w) = Dash THEN Tail(w) ELSE w
Occurrences(w, char) == Cardinality({n \in DOMAIN w : w[n] = char})

\* n nonempty parts of the characters chars, with separators between them.
Parts(w, n, chars, separator) ==
  /\ Of(w, chars \cup {separator}) /\ Occurrences(w, separator) = n - 1
  /\ \A k \in DOMAIN w : w[k] = separator =>
       k \notin {1, Len(w)} /\ w[k + 1] # separator

IsLexeme(rule, w) ==
  CASE rule \in 1 .. 13 -> w = <<Signs[rule]>>
    [] rule \in 14 .. 24 -> w = Keywords[rule - 13]
    [] rule = 25 -> Number(Unsigned(w))
    [] rule = 26 -> Len(w) > 1 /\ Head(w) \in Letters /\ Of(w, IdCharacters)
    [] rule = 27 -> Of(Unsigned(w), {Digit, Dot}) /\ Occurrences(w, Dot) = 1
    [] rule = 28 -> Parts(w, 4, {Digit, Star}, Dot)
    [] rule = 29 -> Parts(w, 3, {Digit}, Dash)
    [] rule = 30 -> Parts(w, 2, {Digit}, Colon)
    [] rule = 31 -> /\ Len(w) > 1 /\ Head(w) = Quote /\ Last(w) = Quote
                    /\ Occurrences(w, Quote) = 2
    [] rule = 32 -> w # <<>> /\ Of(w, {Blank})
    [] rule = 33 -> w # <<>> /\ Head(w) = Hash /\ Newline \notin ToSet(w)
    [] rule = 34 -> w = <<Newline>>
    [] rule = 35 -> Len(w) = 1 /\ w # <<Newline>>

-----------------------------------------------------------------------------
(* Properties.                                                             *)

(* commandlex with the tables of flex: what it matches is the longest      *)
(* prefix of the rest of the text that any rule matches, by the first of   *)
(* the rules that match it, also where the scanner read past the token and *)
(* had to back up, and where the text ends inside a token; no character is *)
(* left out, matched twice, or remembered from an earlier text.            *)
LongestMatch ==
  lexemes # <<>> =>
    LET x == Last(lexemes)
        end == Len(yy_ch_buf) - 2
        Word(last) == SubSeq(yy_ch_buf, x.first, last)
    IN /\ x.first = IF Len(lexemes) = 1 THEN 1 ELSE lexemes[Len(lexemes) - 1].last + 1
       /\ x.last \in x.first .. end
       /\ IsLexeme(x.rule, Word(x.last))
       /\ \A r \in 1 .. x.rule - 1 : ~IsLexeme(r, Word(x.last))
       /\ \A r \in 1 .. 35, l \in x.last + 1 .. end : ~IsLexeme(r, Word(l))
       /\ lexPc = "end" => x.last = end

=============================================================================
