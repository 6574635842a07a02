--------------------------- MODULE CommandParser ---------------------------
(***************************************************************************)
(* The parser of query commands (query/command_parser.cpp): the tables and *)
(* the driver bison generated, and the actions of the grammar, which query *)
(* the indexes while the parser reduces. A token is its kind, numbered as  *)
(* in the code, with its value; what the scanner does not know it skips.   *)
(* Tables start at 1 where the code's start at 0. One command is parsed at *)
(* a time: all of it happens under cmd_parser_lock.                        *)
(***************************************************************************)
EXTENDS Integers, Sequences, SequencesExt, FiniteSets

CONSTANTS
    OctetBase,  \* values of an octet: 256 in the code
    Octets,     \* octets of an address: 4 in the code
    Forever,    \* the end of time of a command without one: 2e10 in the code
    DayLength,  \* minutes of a day
    Today,      \* the day of a time without a day
    Traces,     \* the catalogued traces: records [start, end, flows]
    Live,       \* the trace that is being written: record [start, flows]
    ANY,        \* the octet * of an address
    NULL

ASSUME ParserAssumption ==
  {OctetBase, Octets, DayLength} \subseteq Nat \ {0} /\ {Forever, Today} \subseteq Nat

VARIABLES
    command,   \* the tokens of the command
    pos,       \* the token that is the lookahead
    stack,     \* the states and semantic values: yyss and yyvs
    result,    \* what the last complete filter found
    query,     \* may the actions query: query # NULL
    request,   \* "query_request", or NULL: the indexes in memory are queried
    req,       \* query_request: type, times, save file and the trace of its index files
    pc

parser == <<command, pos, stack, result, query, request, req>>

-----------------------------------------------------------------------------
(* The tables. Terminals below YYNTOKENS, then the nonterminals command,   *)
(* filter, nonempty_filter, start, end, file name and timestamp.           *)

NINF == -15
YYFINAL == 18
YYLAST == 45
YYNTOKENS == 34
YYTERROR == 1

Tok == [EQUALITY |-> 11, LPAREN |-> 12, RPAREN |-> 13, OR |-> 14, AND |-> 15, INTEGER |-> 16,
        STRING |-> 17, TIME |-> 18, DAY |-> 19, ID |-> 21, IP_ADDR |-> 22, SIP |-> 23,
        DIP |-> 24, SPORT |-> 25, DPORT |-> 26, PROTO |-> 27, TIME_START |-> 28,
        TIME_END |-> 29, SAVE |-> 30, COUNT |-> 31, SHOW |-> 32, HELP |-> 33]

yyr1 == <<0,34,35,35,35,35,36,36,37,37,37,37,37,37,37,37,38,38,39,39,40,40,41,41>>
yyr2 == <<0,2,1,5,4,4,0,1,3,3,3,3,3,3,3,3,0,3,0,3,1,1,2,1>>
yydefact == <<0,0,6,6,2,0,21,20,6,0,0,0,0,0,0,16,7,16,1,16,0,0,0,0,0,0,0,18,0,0,18,18,
              8,11,12,13,14,15,0,0,4,10,9,5,3,23,0,17,0,22,19>>
yydefgoto == <<-1,5,15,16,27,40,8,47>>
yypact == <<-8,-13,-11,-11,-15,6,-15,-15,-11,-11,10,19,20,21,22,7,3,7,-15,7,-4,12,14,23,24,
            25,26,9,-11,-11,9,9,-15,-15,-15,-15,-15,-15,8,31,-15,-15,-15,-15,-15,-15,27,-15,
            8,-15,-15>>
yypgoto == <<-15,-15,-1,-9,-14,-2,-15,-5>>
yytable == <<20,9,17,30,6,31,18,19,7,32,28,29,10,11,12,13,14,28,29,41,42,21,1,2,3,4,45,46,43,
             44,22,23,24,25,33,26,34,38,39,35,36,37,48,50,0,49>>
yycheck == <<9,12,3,17,17,19,0,8,21,13,14,15,23,24,25,26,27,14,15,28,29,11,30,31,32,33,18,19,
             30,31,11,11,11,11,22,28,22,11,29,16,16,16,11,48,-1,18>>

-----------------------------------------------------------------------------
(* The driver yyparse.                                                     *)

State == Last(stack).state
yytoken == IF pos <= Len(command) THEN command[pos].kind ELSE 0

\* The entry of state s for symbol x: NULL if the default of the state applies.
Entry(s, x) ==
  LET n == yypact[s + 1] + x
  IN IF yypact[s + 1] = NINF \/ n \notin 0 .. YYLAST THEN NULL
     ELSE IF yycheck[n + 1] # x THEN NULL ELSE yytable[n + 1]

Parses == pc = "parse" /\ State # YYFINAL

yyshift ==
  /\ Parses /\ Entry(State, yytoken) # NULL
  /\ stack' = Append(stack, [state |-> Entry(State, yytoken),
                             val |-> IF yytoken = 0 THEN NULL ELSE command[pos].val])
  /\ pos' = pos + 1
  /\ UNCHANGED <<command, result, query, request, req, pc>>

\* The next step is the default reduction by rule n.
Reduces(n) ==
  /\ Parses /\ Entry(State, yytoken) = NULL
  /\ n # 0 /\ yydefact[State + 1] = n

\* The state after rule n was reduced in state s.
Goto(s, n) ==
  LET sym == yyr1[n + 1] - YYNTOKENS + 1
      i == yypgoto[sym] + s
  IN IF i \in 0 .. YYLAST /\ yycheck[i + 1] = s THEN yytable[i + 1] ELSE yydefgoto[sym]

\* The values of the right-hand side, and the stack with the left-hand side in its place.
Rhs(n) == [i \in 1 .. yyr2[n + 1] |-> stack[Len(stack) - yyr2[n + 1] + i].val]
Replaced(n, val) ==
  LET rest == SubSeq(stack, 1, Len(stack) - yyr2[n + 1])
  IN Append(rest, [state |-> Goto(Last(rest).state, n), val |-> val])

yyaccept ==
  /\ pc = "parse" /\ State = YYFINAL
  /\ pc' = "return"
  /\ UNCHANGED parser

\* No state takes the error token: the stack is popped to its end.
yyerrlab ==
  /\ Parses /\ Entry(State, yytoken) = NULL /\ yydefact[State + 1] = 0
  /\ \A i \in DOMAIN stack : Entry(stack[i].state, YYTERROR) = NULL
  /\ stack' = <<Head(stack)>>
  /\ pc' = "return"
  /\ UNCHANGED <<command, pos, result, query, request, req>>

-----------------------------------------------------------------------------
(* What the actions call: Query, Storage and Index on one of the traces.   *)

\* uint16_t in the other byte order.
ntohs(p) == (p % OctetBase) * OctetBase + p \div OctetBase

KeyOf(flow, f) ==
  CASE f \in {Tok.SIP, Tok.DIP} -> flow[f]
    [] f \in {Tok.SPORT, Tok.DPORT} -> ntohs(flow[f])
    [] f = Tok.PROTO -> flow[f] % OctetBase

\* The conversion of a key to the KEY of its index.
Width(f) == CASE f \in {Tok.SIP, Tok.DIP} -> Octets
              [] f \in {Tok.SPORT, Tok.DPORT} -> 2
              [] f = Tok.PROTO -> 1
Narrow(f, k) == k % OctetBase ^ Width(f)

InOrder(S) ==
  [i \in 1 .. Cardinality(S) |-> CHOOSE d \in S : Cardinality({e \in S : e < d}) = i - 1]
Found(flows, f, lo, hi) ==
  InOrder({i \in DOMAIN flows : lo <= KeyOf(flows[i], f) /\ KeyOf(flows[i], f) <= hi})

\* One list for all keys in memory, the lists of the keys one after the other in a file.
queryFromMem(f, lo, hi) == Found(Live.flows, f, lo, hi)
queryFromFile(trace, f, lo, hi) ==
  FlattenSeq([k \in 1 .. hi - lo + 1 |-> Found(Traces[trace].flows, f, lo + k - 1, lo + k - 1)])

getOffsets(f, lo, hi) ==
  IF ~query THEN NULL
  ELSE IF request = NULL THEN queryFromMem(f, Narrow(f, lo), Narrow(f, hi))
  ELSE queryFromFile(req.trace, f, Narrow(f, lo), Narrow(f, hi))

\* The range of an address: an octet * is 0 at its begin and 0xff at its end.
Bound(ip, any) == FoldLeft(LAMBDA n, o : n * OctetBase + (IF o = ANY THEN any ELSE o), 0, ip)

\* OffsetsResult::intersection and merge: module OffsetsResult, in one step.
Combined(op, a, b) ==
  LET walk[i \in 1 .. Len(a) + 1, j \in 1 .. Len(b) + 1] ==
        IF i > Len(a) \/ j > Len(b) THEN <<>>
        ELSE IF a[i] = b[j] THEN <<a[i]>> \o walk[i + 1, j + 1]
        ELSE IF a[i] > b[j] THEN (IF op = Tok.OR THEN <<b[j]>> ELSE <<>>) \o walk[i, j + 1]
        ELSE (IF op = Tok.OR THEN <<a[i]>> ELSE <<>>) \o walk[i + 1, j]
  IN walk[1, 1]

-----------------------------------------------------------------------------
(* The actions of the grammar, one or several rules each.                  *)

SetReq(r) == IF request = NULL THEN req ELSE r

Reduced(n, val) ==
  /\ Reduces(n)
  /\ stack' = Replaced(n, val)
  /\ UNCHANGED <<command, pos, query, request, pc>>

Verb == <<NULL, Tok.HELP, Tok.SAVE, Tok.COUNT, Tok.SHOW>>

commandRule(n) ==
  /\ n \in 2 .. 5 /\ Reduced(n, NULL)
  /\ req' = SetReq([req EXCEPT !.type = Verb[n]])
  /\ UNCHANGED result

\* Unlike rule 7 this one leaves result alone.
emptyFilter(n) ==
  /\ n = 6 /\ Reduced(n, getOffsets(Tok.SIP, 0, OctetBase ^ Octets - 1))
  /\ UNCHANGED <<result, req>>

filter(n) ==
  /\ n = 7 /\ Reduced(n, Rhs(n)[1])
  /\ result' = Rhs(n)[1]
  /\ UNCHANGED req

parenthesis(n) ==
  /\ n = 8 /\ Reduced(n, Rhs(n)[2])
  /\ UNCHANGED <<result, req>>

\* Mutant: the operators are taken for each other.
Operator(n) == IF n = 9 THEN Tok.OR ELSE Tok.AND

OperatorOf(n) == IF n = 9 THEN Tok.AND ELSE Tok.OR

binary(n) ==
  /\ n \in 9 .. 10
  /\ LET a == Rhs(n)[1]  b == Rhs(n)[3]
     IN Reduced(n, IF a = NULL \/ b = NULL THEN NULL ELSE Combined(OperatorOf(n), a, b))
  /\ UNCHANGED <<result, req>>

address(n) ==
  /\ n \in 11 .. 12
  /\ Reduced(n, getOffsets(IF n = 11 THEN Tok.SIP ELSE Tok.DIP,
                           Bound(Rhs(n)[3], 0), Bound(Rhs(n)[3], OctetBase - 1)))
  /\ UNCHANGED <<result, req>>

number(n) ==
  /\ n \in 13 .. 15
  /\ Reduced(n, getOffsets(Tok.SPORT + n - 13, Rhs(n)[3], Rhs(n)[3]))
  /\ UNCHANGED <<result, req>>

startTime(n) ==
  /\ n \in 16 .. 17
  /\ LET t == IF n = 16 THEN 0 ELSE Rhs(n)[3]
     IN Reduced(n, t) /\ req' = SetReq([req EXCEPT !.start = t])
  /\ UNCHANGED result

\* Mutant: a command without an end keeps the end of the command before it.
EndOfBefore(n) == IF n = 18 THEN req.end ELSE Rhs(n)[3]

EndOf(n) == IF n = 18 THEN Forever ELSE Rhs(n)[3]

endTime(n) ==
  /\ n \in 18 .. 19
  /\ Reduced(n, EndOf(n))
  /\ req' = SetReq([req EXCEPT !.end = EndOf(n)])
  /\ UNCHANGED result

saveFileName(n) ==
  /\ n \in 20 .. 21 /\ Reduced(n, NULL)
  /\ req' = SetReq([req EXCEPT !.save = Rhs(n)[1]])
  /\ UNCHANGED result

timestamp(n) ==
  /\ n \in 22 .. 23
  /\ Reduced(n, IF n = 22 THEN Rhs(n)[1] * DayLength + Rhs(n)[2]
                          ELSE Today * DayLength + Rhs(n)[1])
  /\ UNCHANGED <<result, req>>

yyparse ==
  \/ yyshift \/ yyaccept \/ yyerrlab
  \/ \E n \in 2 .. 23 :
       \/ commandRule(n) \/ emptyFilter(n) \/ filter(n) \/ parenthesis(n) \/ binary(n)
       \/ address(n) \/ number(n) \/ startTime(n) \/ endTime(n) \/ saveFileName(n)
       \/ timestamp(n)

=============================================================================
