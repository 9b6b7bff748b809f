--------------------------- MODULE MCRequestCodec ---------------------------
(* Streams for the codec.                                                   *)
EXTENDS RequestCodecSafety

\* Tokens that are empty, ordinary, or look like the end of a line.
Contents == {<<>>, <<Byte>>, <<Cr, Lf>>, <<Byte, Cr>>}
Requests == BoundedSeq(Contents, 2)

\* A token so long that its end is not in std::size_t.
Long(n) == <<Array(1), Cr, Lf, Bulk(n), Cr, Lf, Byte>>

\* No '*', no number, no '$', no length, no line end where the token ends.
BadTails ==
  { <<Byte>>, <<Bulk(1), Cr, Lf>>, <<Array(1), Byte, Cr, Lf>>,
    <<Array(1), Cr, Lf, Byte>>, <<Array(2), Cr, Lf>> \o EncodeToken(<<>>) \o <<Array(1)>>,
    <<Array(1), Cr, Lf, Bulk(1), Byte, Cr, Lf>>,
    <<Array(1), Cr, Lf, Bulk(1), Cr, Lf, Byte, Byte, Byte>>,
    Long(SizeLimit - 1), Long(SizeLimit - 3), Long(SizeLimit - 4) }

\* A stream may end inside a request.
Cut == { <<>>, <<Array(1), Cr>>, <<Array(2), Cr, Lf, Bulk(1), Cr, Lf, Byte, Cr, Lf>>,
         <<Array(1), Cr, Lf, Bulk(2), Cr, Lf, Cr, Lf>> }

\* The end of the token is the line end of its length, or that of the array's.
Wrapping == {Long(SizeLimit - 2), Long(SizeLimit - 5)}

AllSent ==
  [requests : {<<r>> : r \in Requests} \union {<<r, s>> : r, s \in {<<>>, <<<<Byte>>>>, <<<<Cr, Lf>>>>}},
   tail : BadTails \union Cut \union Wrapping]

=============================================================================
