------------------------- MODULE RequestCodecSafety -------------------------
(* What a connection may rely on, wherever its stream is cut into reads.    *)
EXTENDS RequestCodec

CONSTANT Nonsense  \* tails that are not the beginning of a request

\* The length of the first k requests, and how many have arrived as a whole.
Ends(k)  == Len(EncodeAll(SubSeq(sent.requests, 1, k)))
Complete == Max({k \in 0 .. Len(sent.requests) : Ends(k) <= arrived})

\* Every variable has its type; an open connection buffers less than all that has
\* arrived once a request has been taken out.
TypeOK ==
  /\ sent \in Sent /\ arrived \in 0 .. Len(stream)
  /\ buffer \in Seq(Part) /\ (requests # <<>> => Len(buffer) < arrived)
  /\ requests \in Seq(Seq(Seq(Part))) /\ open \in BOOLEAN

\* Something after the requests has a length whose end is not in std::size_t but
\* wraps around to a line end in front of the content.
WrapsToLineEnd ==
  \E i \in 1 .. Len(sent.tail) :
    /\ sent.tail[i][1] = "$"
    /\ LET end == i + 2 + sent.tail[i][2] - SizeLimit
       IN end >= 0 /\ LineEnds(sent.tail, end)

\* The requests are those that have arrived as a whole, token by token and line
\* ends inside tokens included, and the buffer is what has arrived of the next one;
\* a throw may lose some of them but hands over nothing else
\* (ExtractRequests; src/docs/protocol_reference.md:239).
RequestsFollowStream ==
  (WrapsToLineEnd /\ arrived > Ends(Len(sent.requests))) \/
    IF open THEN /\ requests = SubSeq(sent.requests, 1, Complete)
                 /\ buffer = SubSeq(stream, Ends(Complete) + 1, arrived)
    ELSE IsPrefix(requests, sent.requests)

\* No cut makes the codec throw at a well-formed request or a part of one
\* (exceptions of TryExtractResp); what a request that was handed over too early
\* leaves behind is nonsense.
OnlyNonsenseThrows ==
  ~ open => /\ sent.tail \in Nonsense \/ WrapsToLineEnd
            /\ arrived > Ends(Len(sent.requests))

\* Nonsense is found at the latest when it has arrived, never taken for a request
\* nor waited upon (exceptions of TryExtractResp).
NonsenseThrows == arrived = Len(stream) /\ sent.tail \in Nonsense => ~ open

=============================================================================
