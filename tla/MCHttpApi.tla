----------------------------- MODULE MCHttpApi ------------------------------
(* Instances of HttpApi: the three shapes of answer the hub may give.       *)
EXTENDS HttpApi

Plain   == <<"status", "header", "blank">>
Sized   == <<"status", "header", "length", "blank", "data">>
Chunked == <<"status", "header", "chunked", "blank", "size", "data", "zero",
             "crlf">>
AllAnswers == {Plain, Sized, Chunked}
=============================================================================
