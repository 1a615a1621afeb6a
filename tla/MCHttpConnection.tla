-------------------------- MODULE MCHttpConnection --------------------------
(* HttpConnection with the requests that a client may send. *)
EXTENDS HttpConnection

Header(name, value) == [name |-> <<name>>, value |-> value]

\* A request whose length is the length of its content.
Post(headers, content) ==
  [headers |-> Append(headers, Header("length", <<ToString(Len(content))>>)), content |-> content]

Bearer(token) == Header("auth", <<"Bearer SP", token>>)

MCRequests ==
  {[headers |-> <<Header("other", <<"text">>)>>, content |-> <<>>],
   Post(<<>>, <<>>),
   Post(<<>>, <<"{", "call_a">>),
   Post(<<>>, <<"{", "no_id">>),
   Post(<<>>, <<"{", "no_method">>),
   Post(<<Header("expect", <<"100-continue">>)>>, <<"{", "unknown">>),
   Post(<<Bearer("valid")>>, <<"[", "call_a", "no_id", "call_b">>),
   Post(<<Bearer("no_iat")>>, <<"[", "call_a">>),
   Post(<<Bearer("invalid")>>, <<"{", "call_b">>),
   Post(<<Header("auth", <<"text">>)>>, <<"{", "call_a">>),
   Post(<<Header("other", <<"text", "CR", "LF", "HT", "text">>)>>, <<"{", "call_b">>),
   Post(<<>>, <<"[", "call_a", "stream", "call_b">>),
   Post(<<>>, <<"{", "bad_method">>),
   Post(<<Bearer("valid")>>, <<"[", "call_b", "bad_id">>),
   Post(<<>>, <<"text">>)}
=============================================================================
