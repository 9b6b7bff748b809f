---------------------------- MODULE RequestCodec ----------------------------
(***************************************************************************)
(* RequestCodec of src/Protocol.cpp: how requests are taken out of the     *)
(* bytes that arrive on a connection.                                      *)
(*                                                                         *)
(* The stream consists of parts: '*' or '$' with its number, the two       *)
(* characters of a line end, and other bytes.  Offsets and lengths count   *)
(* parts, from zero as in the code, and are numbers of std::size_t.        *)
(***************************************************************************)
EXTENDS Integers, Sequences, FiniteSetsExt, SequencesExt

CONSTANTS
  Sent,      \* what clients send: well-formed requests, then other parts
  SizeLimit  \* how many values std::size_t has

Size     == 0 .. SizeLimit - 1
Array(n) == <<"*", n>>
Bulk(n)  == <<"$", n>>
Cr       == <<"cr">>
Lf       == <<"lf">>
Byte     == <<"byte">>
Part     == {"*", "$"} \X Size \union {Cr, Lf, Byte}

ASSUME RequestCodecAssumption ==
  /\ SizeLimit \in Nat \ {0}
  /\ Sent \subseteq [requests : Seq(Seq(Seq(Part))), tail : Seq(Part)]

VARIABLES
  sent,     \* what the client of the connection sends
  arrived,  \* how much of it has been read
  buffer,   \* buffer_
  requests, \* the requests taken out so far, each the sequence of its tokens
  open      \* FALSE once ExtractRequests has thrown: the connection is closed

vars == <<sent, arrived, buffer, requests, open>>

\* EncodeResp of the clients.
EncodeToken(token)  == <<Bulk(Len(token)), Cr, Lf>> \o token \o <<Cr, Lf>>
EncodeResp(request) ==
  <<Array(Len(request)), Cr, Lf>>
    \o FlattenSeq([i \in 1 .. Len(request) |-> EncodeToken(request[i])])

EncodeAll(list) == FlattenSeq([i \in 1 .. Len(list) |-> EncodeResp(list[i])])
stream == EncodeAll(sent.requests) \o sent.tail

\* Every request fits into the memory of its client.
ASSUME FitsAssumption ==
  \A s \in Sent : \A i \in 1 .. Len(s.requests) : Len(EncodeResp(s.requests[i])) < SizeLimit

-----------------------------------------------------------------------------
(* TryExtractResp: one request at the front of s.                           *)

LineEnds(s, pos) == pos + 2 <= Len(s) /\ s[pos + 1] = Cr /\ s[pos + 2] = Lf

\* The line at an offset is '*' or '$' and a number: whether it has not arrived
\* yet, or is something else.
LineIncomplete(s, pos, kind) ==
  \/ pos >= Len(s)
  \/ s[pos + 1][1] = kind /\ \A p \in pos .. Len(s) : ~ LineEnds(s, p)
NotSuchLine(s, pos, kind) ==
  /\ ~ LineIncomplete(s, pos, kind)
  /\ s[pos + 1][1] # kind \/ ~ LineEnds(s, pos + 1)

\* Mutant: the content of a token is taken to end with the line.
DataEndOfLine(s, begin, n) == Min({p \in begin .. Len(s) : LineEnds(s, p)} \union {Len(s)})
DataEnd(s, begin, n) == (begin + n) % SizeLimit

\* Mutant: the line end behind the content is not waited for.
ContentMissing(s, end) == end > Len(s)
TokenMissing(s, end)   == (end + 2) % SizeLimit > Len(s)

\* Mutant: the line end behind the content is not looked at.
Whatever(s, end)   == TRUE
Terminated(s, end) == LineEnds(s, end)

\* How far the parser has come, unless it has to wait or to throw.
Going(cursor, tokens) == [then |-> "go on", cursor |-> cursor, tokens |-> tokens]
Waiting == [then |-> "wait", cursor |-> 0, tokens |-> <<>>]
Throwing == [then |-> "throw", cursor |-> 0, tokens |-> <<>>]

\* The body of the loop over the tokens.
NextToken(s, cursor, tokens) ==
  LET n     == s[cursor + 1][2]
      begin == cursor + 3
      end   == DataEnd(s, begin, n)
  IN IF LineIncomplete(s, cursor, "$") THEN Waiting
     ELSE IF NotSuchLine(s, cursor, "$") THEN Throwing
     ELSE IF TokenMissing(s, end) THEN Waiting
     ELSE IF ~ Terminated(s, end) THEN Throwing
     ELSE Going(end + 2, Append(tokens, SubSeq(s, begin + 1, Min({begin + n, Len(s)}))))

Tokens(s, count) ==
  LET after[k \in 0 .. count] ==
        IF k = 0 THEN Going(3, <<>>)
        ELSE IF after[k - 1].then # "go on" THEN after[k - 1]
        ELSE NextToken(s, after[k - 1].cursor, after[k - 1].tokens)
  IN after[count]

TryExtractResp(s) ==
  IF LineIncomplete(s, 0, "*") THEN Waiting
  ELSE IF NotSuchLine(s, 0, "*") THEN Throwing
  ELSE Tokens(s, s[1][2])

\* Mutant: what has been taken out is not erased.
Kept(s, cursor)   == s
Erased(s, cursor) == SubSeq(s, cursor + 1, Len(s))

\* ExtractRequests: as many requests as there are.
ExtractRequests(s) ==
  LET after[k \in 0 .. Len(s)] ==
        IF k = 0 THEN [then |-> "go on", rest |-> s, requests |-> <<>>]
        ELSE LET before == after[k - 1]
                 next   == TryExtractResp(before.rest)
             IN IF before.then # "go on" THEN before
                ELSE IF next.then # "go on" THEN [before EXCEPT !.then = next.then]
                ELSE [before EXCEPT !.rest = Erased(before.rest, next.cursor),
                                    !.requests = Append(@, next.tokens)]
  IN after[Len(s)]

-----------------------------------------------------------------------------
Init ==
  /\ sent \in Sent
  /\ arrived = 0 /\ buffer = <<>> /\ requests = <<>> /\ open = TRUE

\* A read() of any size, appended and decoded.  What is decoded before an
\* exception is not returned.
Read(n) ==
  LET chunk  == SubSeq(stream, arrived + 1, arrived + n)
      result == ExtractRequests(buffer \o chunk)
  IN /\ open /\ arrived + n <= Len(stream)
     /\ arrived' = arrived + n
     /\ IF result.then = "throw"
        THEN open' = FALSE /\ buffer' = <<>> /\ UNCHANGED requests
        ELSE /\ buffer' = result.rest /\ requests' = requests \o result.requests
             /\ UNCHANGED open
     /\ UNCHANGED sent

Next == \E n \in 1 .. Len(stream) : Read(n)

Spec == Init /\ [][Next]_vars

=============================================================================
