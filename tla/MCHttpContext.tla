---------------------------- MODULE MCHttpContext ----------------------------
(***************************************************************************)
(* An instance of HttpContext: sizes of four bits with digits of two, and  *)
(* inputs that begin with each part of a request, followed by any bytes.   *)
(***************************************************************************)
EXTENDS HttpContext

End == <<CR, LF>>
Head1(headers) == FlattenSeq([k \in 1..Len(headers) |-> <<headers[k]>> \o End]) \o End
Chunk(size, text) == size \o End \o text \o End

Starts ==
    LET chunks == Head1(<<"Chunked">>)
        one == Chunk(<<"1">>, <<"x">>)
        two == Chunk(<<"2">>, <<"x", "x">>)
    IN
    { <<>>,
      Head1(<<"x">>),
      Head1(<<"Alive", "One">>), Head1(<<"Two", "Alive", "Close">>), Head1(<<"Minus">>),
      Head1(<<"One">>) \o <<"x">> \o Head1(<<"Alive">>),
      Head1(<<"x">>) \o [k \in 1..25 |-> "x"],
      Head1(<<"x", "Two">>) \o <<"x", "x">> \o chunks,
      chunks,
      Head1(<<"One", "Chunked", "Alive">>) \o one,
      Head1(<<"Chunked", "Plain", "One">>),
      chunks \o one \o <<"2">>,
      chunks \o one \o two,
      chunks \o two \o one \o <<"0">> \o End,
      chunks \o <<"1">> \o End \o <<"x", "x", "x">>,
      chunks \o <<"0">> \o End \o <<"x">> \o End \o End }
Bytes == {"x", " ", CR, LF, "0", "1", "3"}
=============================================================================
