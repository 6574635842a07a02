--------------------------- MODULE MCQueryCommand ---------------------------
(***************************************************************************)
(* Addresses of two octets with four values each, two catalogued traces    *)
(* and one that is written; sentences of up to three tests with one level  *)
(* of parentheses; commands that are sentences and, for two of them, the   *)
(* texts with one token left out or one unknown token put in. Port 5 is    *)
(* the same in both byte orders, 4 and 1 are each other's, 17 does not     *)
(* fit. Beside the commands, the scanner on short texts over the           *)
(* characters whose patterns begin alike, on all signs, and on what        *)
(* differs from a keyword a little.                                        *)
(***************************************************************************)
EXTENDS QueryCommand, CommandScanner

VARIABLE part  \* what runs: the scanner, or commands of tokens

CONSTANTS out1, out2

F(sip, dip, sport, dport, proto) == [f \in 23 .. 27 |-> <<sip, dip, sport, dport, proto>>[f - 22]]

MCTraces ==
  << [start |-> 10, end |-> 20,
      flows |-> <<F(6, 9, 5, 4, 2), F(5, 9, 4, 5, 1), F(4, 8, 5, 4, 2), F(5, 9, 5, 4, 3)>>],
     [start |-> 25, end |-> 30, flows |-> <<F(5, 9, 5, 4, 2), F(9, 5, 4, 5, 2), F(4, 9, 5, 4, 2)>>] >>
MCLive == [start |-> 40, flows |-> <<F(7, 9, 5, 4, 2), F(4, 9, 5, 1, 2), F(5, 9, 2, 4, 3)>>]

Test(field, kind, val) == [op |-> "test", field |-> field, kind |-> kind, val |-> val]
Join(l, by, r) == [op |-> "join", left |-> l, by |-> by, right |-> r]
Paren(f) == [op |-> "paren", of |-> f]

Sip == Test(Tok.SIP, Tok.IP_ADDR, <<1, ANY>>)
Sport == Test(Tok.SPORT, Tok.INTEGER, 5)
Joins(L, R) == {Join(l, by, r) : l \in L, by \in {Tok.AND, Tok.OR}, r \in R}
Pairs == Joins({Sip, Sport}, {Sip, Sport})
Parens == {Paren(f) : f \in {Sip, Sport} \cup Pairs}
Singles ==
  {Sip, Sport, Test(Tok.SIP, Tok.IP_ADDR, <<1, 1>>), Test(Tok.DIP, Tok.IP_ADDR, <<2, 1>>),
   Test(Tok.DPORT, Tok.INTEGER, 17), Test(Tok.DPORT, Tok.INTEGER, 5), Test(Tok.PROTO, Tok.INTEGER, 2)}
Filters ==
  {NULL} \cup Singles \cup Pairs \cup Parens \cup Joins({Join(Sip, Tok.OR, Sport)}, {Sport})
    \cup Joins({Sport}, {Paren(Join(Sip, Tok.AND, Sport))})

Times == {NULL, <<1, 5>>, <<NULL, 5>>}
Files == {[kind |-> Tok.ID, name |-> out1], [kind |-> Tok.STRING, name |-> out2]}
NoFile == [kind |-> NULL, name |-> NULL]
S(verb, file, f, start, end) ==
  [verb |-> verb, file |-> file, filter |-> f, start |-> start, end |-> end]

MCSentences ==
  {S(Tok.HELP, NoFile, NULL, NULL, NULL)}
    \cup {S(v, NoFile, f, s, e) : v \in {Tok.COUNT, Tok.SHOW}, f \in Filters, s \in Times, e \in Times}
    \cup {S(Tok.SAVE, w, f, s, e) : w \in Files, f \in Filters, s \in Times, e \in Times}

Chosen ==
  {S(Tok.HELP, NoFile, NULL, NULL, NULL), S(Tok.SHOW, NoFile, Sport, <<1, 5>>, NULL),
   S(Tok.COUNT, NoFile, NULL, NULL, <<1, 5>>), S(Tok.SAVE, [kind |-> Tok.STRING, name |-> out2], Sip, NULL, NULL),
   S(Tok.COUNT, NoFile, Join(Join(Sip, Tok.OR, Sport), Tok.AND, Sport), NULL, NULL),
   S(Tok.COUNT, NoFile, Join(Sport, Tok.OR, Paren(Join(Sip, Tok.AND, Sport))), <<NULL, 5>>, NULL)}
    \cup {S(Tok.COUNT, NoFile, f, NULL, NULL) : f \in Singles}

Mistyped ==
  {S(Tok.SAVE, [kind |-> Tok.ID, name |-> out1], Join(Sip, Tok.AND, Sport), <<1, 5>>, NULL),
   S(Tok.COUNT, NoFile, Paren(Sport), NULL, <<NULL, 5>>)}

Unknown == [kind |-> 5, val |-> NULL]
Mistakes(t) ==
  {SubSeq(t, 1, i - 1) \o SubSeq(t, i + 1, Len(t)) : i \in DOMAIN t}
    \cup {SubSeq(t, 1, i) \o <<Unknown>> \o SubSeq(t, i + 1, Len(t)) : i \in 0 .. Len(t)}

MCCommands ==
  {Tokens(x) : x \in Chosen \cup Mistyped} \cup UNION {Mistakes(Tokens(x)) : x \in Mistyped}

Over(chars, n) == UNION {[1 .. k -> chars] : k \in 1 .. n}
NearKeyword ==
  UNION {{SubSeq(w, 1, k) \o x : k \in DOMAIN w, x \in {<<>>, <<15>>} \cup Over({16, Digit, Dot}, 1)}
           : w \in ToSet(Keywords)}
MCFirstTexts ==
  Over({Digit, Star, Dot}, 7) \cup Over({Digit, Dash, Colon, Dot}, 6)
    \cup Over({1, Blank, Newline, Quote, Hash, Dash, Dot, Digit, 20}, 4)
    \cup Over(1 .. 38, 2) \cup NearKeyword
MCLaterTexts == Over({1, Quote, Dot, Digit, 20}, 2)

allVars == <<vars, scanner, part>>

MCInit == part \in {"scanner", "commands"} /\ Init /\ ScannerInit
MCNext ==
  /\ UNCHANGED part
  /\ \/ part = "scanner" /\ ScannerNext /\ UNCHANGED vars
     \/ part = "commands" /\ Next /\ UNCHANGED scanner
MCSpec == MCInit /\ [][MCNext]_allVars

=============================================================================
