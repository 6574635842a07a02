---------------------------- MODULE QueryCommand ----------------------------
(***************************************************************************)
(* Query::processCommand (query/query.cpp): a command is parsed once for   *)
(* its type, times and file, then once more for the trace that is being    *)
(* written and for every catalogued trace whose row overlaps the times; at *)
(* each of these parses the actions of the grammar query the indexes.      *)
(* request keeps its fields from one command to the next.                  *)
(***************************************************************************)
EXTENDS CommandParser

CONSTANTS
    Commands,     \* the commands that may be typed
    Sentences,    \* the language: records of tokens and meaning, up to a length
    MaxCommands   \* bound on the number of commands

VARIABLES
    commands,  \* how many commands were processed
    caller,    \* who parses: parse_req_parameters, or parse_command for "memory" or a "row"
    rows,      \* the traces still to query
    dump,      \* the save file, NULL if it could not be opened
    saved,     \* the records in each save file
    count,     \* packets_count
    shown,     \* the byte offsets a SHOW has read
    before     \* query_request when the command was read

vars == <<parser, pc, commands, caller, rows, dump, saved, count, shown, before>>

Init ==
  /\ command = <<>> /\ pos = 1 /\ stack = <<[state |-> 0, val |-> NULL]>>
  /\ result = NULL /\ query = FALSE /\ request = NULL
  /\ req = [type |-> Tok.HELP, start |-> 0, end |-> 0, save |-> NULL, trace |-> NULL]
  /\ pc = "idle" /\ commands = 0 /\ caller = NULL /\ rows = <<>>
  /\ dump = NULL /\ saved = <<>> /\ count = 0 /\ shown = <<>>
  /\ before = req

\* Both functions that call the parser: scan the command from its start.
Parse(by, q, r) ==
  /\ caller' = by /\ query' = q /\ request' = r
  /\ pos' = 1 /\ stack' = <<[state |-> 0, val |-> NULL]>>
  /\ pc' = "parse"

parse_req_parameters(c) ==
  /\ pc = "idle" /\ commands < MaxCommands
  /\ commands' = commands + 1
  /\ command' = c
  /\ Parse("request", FALSE, "query_request")
  /\ before' = req
  /\ UNCHANGED <<result, req, rows, dump, saved, count, shown>>

\* The rows whose times overlap those of the request, in the order of the table.
getMatchedTraces ==
  SelectSeq([i \in DOMAIN Traces |-> i],
            LAMBDA i : Traces[i].start <= req.end /\ Traces[i].end >= req.start)

\* Is the trace that is being written queried? SHOW does not look at the end.
QueriesMemory ==
  /\ Live.start >= req.start
  /\ req.type = Tok.SHOW \/ Live.start <= req.end

\* The next trace is queried, or the command is done.
NextTrace(left) ==
  IF left = <<>>
  THEN pc' = "close" /\ UNCHANGED <<req, rows, caller, query, request, pos, stack>>
  ELSE /\ req' = [req EXCEPT !.trace = Head(left)]
       /\ rows' = Tail(left)
       /\ Parse("row", TRUE, "query_request")

help ==
  /\ pc = "return" /\ caller = "request" /\ req.type = Tok.HELP
  /\ pc' = "idle"
  /\ UNCHANGED <<parser, commands, caller, rows, dump, saved, count, shown, before>>

\* The save file is opened, and so emptied, before anything is queried.
openSaveFile(opens) ==
  IF req.type # Tok.SAVE THEN UNCHANGED <<dump, saved>>
  ELSE IF opens THEN dump' = req.save /\ saved' = (req.save :> <<>>) @@ saved
  ELSE dump' = NULL /\ UNCHANGED saved

dispatch(opens) ==
  /\ pc = "return" /\ caller = "request" /\ req.type # Tok.HELP
  /\ openSaveFile(opens)
  /\ count' = 0 /\ shown' = <<>>
  /\ IF QueriesMemory
     THEN /\ Parse("memory", TRUE, NULL)
          /\ rows' = getMatchedTraces /\ UNCHANGED req
     ELSE NextTrace(getMatchedTraces)
  /\ UNCHANGED <<command, result, commands, before>>


\* The record read for the n-th match: at the end of the file the last one read remains.
Records(ids, flows) ==
  LET read[n \in 0 .. Len(ids)] ==
        IF n = 0 THEN NULL
        ELSE IF ids[n] + 1 \in DOMAIN flows THEN flows[ids[n] + 1] ELSE read[n - 1]
  IN [n \in DOMAIN ids |-> read[n]]

saveMatchedFlowsToFile(ids, flows) ==
  IF req.type = Tok.SAVE /\ dump # NULL /\ ids # NULL
  THEN saved' = [saved EXCEPT ![dump] = @ \o Records(ids, flows)]
  ELSE UNCHANGED saved

Counted(ids) == IF req.type = Tok.COUNT /\ ids # NULL THEN count + Len(ids) ELSE count

\* Mutant: the result stays for the next parse.
KeptResult == result

\* result after parse_command has returned it.
Forgotten == NULL

\* processCommand uses what parse_command returns.
parse_command ==
  /\ pc = "return" /\ caller # "request"
  /\ result' = Forgotten
  /\ saveMatchedFlowsToFile(result, IF caller = "memory" THEN Live.flows
                                    ELSE Traces[req.trace].flows)
  /\ count' = Counted(result)
  /\ shown' = IF req.type = Tok.SHOW /\ caller = "row" /\ result # NULL
              THEN shown \o result ELSE shown
  /\ IF rows = <<>>
     THEN /\ pc' = "close" /\ query' = FALSE /\ request' = NULL
          /\ UNCHANGED <<pos, stack, caller, rows, req>>
     ELSE NextTrace(rows)
  /\ UNCHANGED <<command, commands, dump, before>>

\* fclose(NULL) if the save file could not be opened.
close ==
  /\ pc = "close"
  /\ pc' = IF req.type = Tok.SAVE /\ dump = NULL THEN "crashed" ELSE "idle"
  /\ UNCHANGED <<parser, commands, caller, rows, dump, saved, count, shown, before>>

Next ==
  \/ \E c \in Commands : parse_req_parameters(c)
  \/ yyparse /\ UNCHANGED <<commands, caller, rows, dump, saved, count, shown, before>>
  \/ help
  \/ \E opens \in BOOLEAN : dispatch(opens)
  \/ parse_command \/ close

Spec == Init /\ [][Next]_vars

-----------------------------------------------------------------------------
(* The language of commands. A sentence is a verb, the file of a SAVE, a    *)
(* filter and times. A filter is NULL, a test of a field, two filters      *)
(* joined by an operator, or a filter in parentheses; a time is a pair of  *)
(* a day, which may be NULL, and a time, or NULL.                          *)

T(k, v) == <<[kind |-> k, val |-> v]>>

RECURSIVE FilterTokens(_)
FilterTokens(f) ==
  IF f = NULL THEN <<>>
  ELSE CASE f.op = "test" -> T(f.field, NULL) \o T(Tok.EQUALITY, NULL) \o T(f.kind, f.val)
         [] f.op = "paren" -> T(Tok.LPAREN, NULL) \o FilterTokens(f.of) \o T(Tok.RPAREN, NULL)
         [] f.op = "join" -> FilterTokens(f.left) \o T(f.by, NULL) \o FilterTokens(f.right)

TimeTokens(k, t) ==
  IF t = NULL THEN <<>>
  ELSE T(k, NULL) \o T(Tok.EQUALITY, NULL)
         \o (IF t[1] = NULL THEN <<>> ELSE T(Tok.DAY, t[1])) \o T(Tok.TIME, t[2])

Tokens(x) ==
  T(x.verb, NULL) \o (IF x.verb = Tok.SAVE THEN T(x.file.kind, x.file.name) ELSE <<>>)
    \o FilterTokens(x.filter)
    \o TimeTokens(Tok.TIME_START, x.start) \o TimeTokens(Tok.TIME_END, x.end)

(* How far a command is the beginning of a sentence: the parser stops at   *)
(* the next token. The sentence that ends there, if one does.              *)

Text == [x \in Sentences |-> Tokens(x)]
Texts == {Text[x] : x \in Sentences}
Beginnings == UNION {Prefixes(t) : t \in Texts}
Beginning ==
  [c \in Commands |->
     SubSeq(c, 1, CHOOSE n \in 0 .. Len(c) :
                    /\ SubSeq(c, 1, n) \in Beginnings
                    /\ n < Len(c) => SubSeq(c, 1, n + 1) \notin Beginnings)]

Meaning ==
  [c \in Commands |->
     IF Beginning[c] \in Texts THEN CHOOSE x \in Sentences : Text[x] = Beginning[c] ELSE NULL]

\* The filter that was complete when the parser stopped: no operator follows it.
FilterOf ==
  [c \in Commands |->
     LET complete == {x \in Sentences :
                        /\ x.filter # NULL /\ x.start = NULL /\ x.end = NULL
                        /\ IsPrefix(Text[x], Beginning[c])
                        /\ Len(Text[x]) < Len(Beginning[c]) =>
                             Beginning[c][Len(Text[x]) + 1].kind \notin {Tok.AND, Tok.OR}}
     IN IF complete = {} THEN NULL ELSE (CHOOSE x \in complete : TRUE).filter]

Seconds(t, default) ==
  IF t = NULL THEN default ELSE (IF t[1] = NULL THEN Today ELSE t[1]) * DayLength + t[2]

Flows(source) == IF source = NULL THEN Live.flows ELSE Traces[source].flows

\* The value of a filter for a source: NULL is the memory, else a trace.
RECURSIVE Value(_, _)
Value(f, source) ==
  CASE f.op = "test" ->
         LET lo == IF f.kind = Tok.IP_ADDR THEN Bound(f.val, 0) ELSE f.val
             hi == IF f.kind = Tok.IP_ADDR THEN Bound(f.val, OctetBase - 1) ELSE f.val
         IN IF source = NULL THEN queryFromMem(f.field, Narrow(f.field, lo), Narrow(f.field, hi))
            ELSE queryFromFile(source, f.field, Narrow(f.field, lo), Narrow(f.field, hi))
    [] f.op = "paren" -> Value(f.of, source)
    [] f.op = "join" -> Combined(f.by, Value(f.left, source), Value(f.right, source))

\* The value of every filter of the language for every source.
Values ==
  [f \in {x.filter : x \in Sentences}, source \in {NULL} \cup DOMAIN Traces |->
     IF f = NULL THEN <<>> ELSE Value(f, source)]

\* Does a flow pass a filter? An address is compared octet by octet, a port and a
\* protocol with the ones the line of the flow named (readFromLine).
RECURSIVE Passes(_, _)
Passes(f, flow) ==
  CASE f.op = "test" ->
         IF f.kind = Tok.IP_ADDR
         THEN \A o \in 1 .. Octets :
                f.val[o] \in {ANY, (flow[f.field] \div OctetBase ^ (Octets - o)) % OctetBase}
         ELSE flow[f.field] = f.val
    [] f.op = "paren" -> Passes(f.of, flow)
    [] f.op = "join" -> IF f.by = Tok.AND THEN Passes(f.left, flow) /\ Passes(f.right, flow)
                        ELSE Passes(f.left, flow) \/ Passes(f.right, flow)

\* No operator OR, whose merge drops matches, and no octet *, whose lists do not ascend.
RECURSIVE Plain(_)
Plain(f) ==
  CASE f.op = "test" -> f.kind # Tok.IP_ADDR \/ ANY \notin ToSet(f.val)
    [] f.op = "paren" -> Plain(f.of)
    [] f.op = "join" -> f.by = Tok.AND /\ Plain(f.left) /\ Plain(f.right)

\* No port but those that are the same number in both byte orders, and no protocol
\* that is more than a byte: the others meet the conversions of get_sport and KEY.
RECURSIVE Exact(_)
Exact(f) ==
  CASE f.op = "test" ->
         \/ f.kind = Tok.IP_ADDR
         \/ f.field = Tok.PROTO /\ f.val < OctetBase
         \/ \E octet \in 0 .. OctetBase - 1 : f.val = octet * OctetBase + octet
    [] f.op = "paren" -> Exact(f.of)
    [] f.op = "join" -> Exact(f.left) /\ Exact(f.right)

-----------------------------------------------------------------------------
(* Properties.                                                             *)

(* parse_req_parameters and the actions of the grammar: a command whose    *)
(* beginning is a sentence, whatever follows it, sets type, times and file *)
(* of query_request; any other command runs with the type of the command   *)
(* before it. Later parses of the same command change none of this.        *)
RequestOfCommand ==
  pc \in {"return", "close"} =>
    LET x == Meaning[command]
    IN IF x = NULL THEN req.type = before.type
       ELSE /\ req.type = x.verb
            /\ x.verb # Tok.HELP => /\ req.start = Seconds(x.start, 0)
                                     /\ req.end = Seconds(x.end, Forever)
            /\ req.save = IF x.verb = Tok.SAVE THEN x.file.name ELSE before.save

(* parse_command: what it returns is the value of the command's own        *)
(* complete filter for the trace that is queried, AND and OR taken from    *)
(* left to right, even if the command is refused after the filter; nothing *)
(* for an empty filter, and nothing is left over from an earlier parse.    *)
ResultOfFilter ==
  /\ pc = "return" =>
       result = IF caller = "request" \/ FilterOf[command] = NULL THEN NULL
                ELSE Values[FilterOf[command], IF caller = "memory" THEN NULL ELSE req.trace]
  /\ pc = "idle" => result = NULL

(* The chain from parser through index query to OffsetsResult: a query for *)
(* addresses, protocols and ports that read the same in both byte orders   *)
(* returns only flows that have them and, if the filter is free of OR and  *)
(* *, all of them. Any other port selects the flows of the port with its   *)
(* bytes swapped: the line of a flow holds the number, get_sport applies   *)
(* ntohs to it, and the number of the query is taken as it is.             *)
ResultMatches ==
  pc = "return" /\ result # NULL /\ Exact(FilterOf[command]) =>
    LET f == FilterOf[command]
        flows == Flows(IF caller = "memory" THEN NULL ELSE req.trace)
        passing == {i \in DOMAIN flows : Passes(f, flows[i])}
    IN /\ ToSet(result) \subseteq passing
       /\ Plain(f) => passing \subseteq ToSet(result)

\* The sources of the request, and what it finds in them, one after the other, with
\* the flows of the source.
Sources == (IF QueriesMemory THEN <<NULL>> ELSE <<>>) \o getMatchedTraces
Matches ==
  FoldLeft(LAMBDA matches, source :
             LET ids == Values[FilterOf[command], source]
             IN matches \o [m \in DOMAIN ids |-> [id |-> ids[m], flows |-> Flows(source)]],
           <<>>, Sources)


=============================================================================
