--------------------------- MODULE RequestParser ----------------------------
(***************************************************************************)
(* http::RequestParser (http/request_parser.cpp): the state machine that   *)
(* takes a request one character at a time.  The state is kept over the    *)
(* reads of the socket, so a request may arrive in any pieces.             *)
(*                                                                         *)
(* Characters are abstracted to those the parser tells apart.  A method, a *)
(* path, a header name, a token and an item of the content are each one    *)
(* character: "length" stands for the name Content-Length, and so on.      *)
(***************************************************************************)
EXTENDS Naturals, Sequences, SequencesExt, TLC

Digits  == {"0", "1", "2", "3", "4"}
Blank   == {"SP", "HT"}
Ctl     == {"CR", "LF", "HT"}                               \* is_ctl
Special == {":", "/", "SP", "HT", "{", "[", "Bearer SP"}    \* is_tspecial
Names   == {"POST", "length", "expect", "auth", "other"}
Letters == {"H", "T", "P", ".", "text", "100-continue", "valid", "invalid", "no_iat"}
Items   == {"call_a", "call_b", "unknown", "no_method", "no_id", "bad_id", "bad_method",
            "stream"}
Foreign == {"foreign"}                                      \* not is_char

Chars      == Digits \cup Ctl \cup Special \cup Names \cup Letters \cup Items \cup Foreign
TokenChars == Chars \ (Ctl \cup Special \cup Foreign)
Text       == Chars \ Ctl

\* Request::reset and RequestParser::reset.  The fields that nothing reads
\* later (the method, the path, the version) are left out.
NewRequest == [state |-> "method_start", headers |-> <<>>, content_length |-> 0, content |-> <<>>]

\* A state, the characters it takes, the next state, and where the character goes.
Move(in, on, to, push) == [in |-> in, on |-> on, to |-> to, push |-> push]

Skip(in, on, to) == Move(in, on, to, "nowhere")

Moves ==
  {Skip("method_start", TokenChars, "method"),
   Skip("method", {"SP"}, "uri"),
   Skip("method", TokenChars, "method"),
   Skip("uri", {"SP"}, "http_version_h"),
   Skip("uri", Text \ {"SP"}, "uri"),
   Skip("http_version_h", {"H"}, "http_version_t_1"),
   Skip("http_version_t_1", {"T"}, "http_version_t_2"),
   Skip("http_version_t_2", {"T"}, "http_version_p"),
   Skip("http_version_p", {"P"}, "http_version_slash"),
   Skip("http_version_slash", {"/"}, "http_version_major_start"),
   Skip("http_version_major_start", Digits, "http_version_major"),
   Skip("http_version_major", {"."}, "http_version_minor_start"),
   Skip("http_version_major", Digits, "http_version_major"),
   Skip("http_version_minor_start", Digits, "http_version_minor"),
   Skip("http_version_minor", {"CR"}, "expecting_newline_1"),
   Skip("http_version_minor", Digits, "http_version_minor"),
   Skip("expecting_newline_1", {"LF"}, "header_line_start"),
   Skip("header_line_start", {"CR"}, "expecting_newline_3"),
   Skip("header_line_start", Blank, "header_lws"),
   Move("header_line_start", TokenChars, "header_name", "new header"),
   Skip("header_lws", {"CR"}, "expecting_newline_2"),
   Skip("header_lws", Blank, "header_lws"),
   Move("header_lws", Text \ Blank, "header_value", "value"),
   Skip("header_name", {":"}, "space_before_header_value"),
   Move("header_name", TokenChars, "header_name", "name"),
   Skip("space_before_header_value", {"SP"}, "header_value"),
   Skip("header_value", {"CR"}, "expecting_newline_2"),
   Move("header_value", Text, "header_value", "value"),
   Skip("expecting_newline_2", {"LF"}, "header_line_start")}

MovesOn ==
  [state \in {m.in : m \in Moves} \cup {"expecting_newline_3"} |->
     [input \in Chars |-> {m \in Moves : m.in = state /\ input \in m.on}]]

\* A folded line needs a header to go on with.
Applicable(req, input) ==
  {m \in MovesOn[req.state][input] : m.to = "header_lws" => req.headers # <<>>}

Push(headers, push, input) ==
  LET last == Len(headers)
  IN CASE push = "new header" -> Append(headers, [name |-> <<input>>, value |-> <<>>])
       [] push = "name"       -> [headers EXCEPT ![last].name = Append(@, input)]
       [] push = "value"      -> [headers EXCEPT ![last].value = Append(@, input)]
       [] OTHER               -> headers

Parsed(req, result) == [req |-> req, result |-> result]

-----------------------------------------------------------------------------
(* The end of the headers, and the content.                                *)

\* The first header of the name, if any.
Named(headers, name) == SelectSeq(headers, LAMBDA h : h.name = <<name>>)

\* A length has one digit here; a value that starts with no digit is 0.
atoi(value) ==
  IF value # <<>> /\ value[1] \in Digits THEN CHOOSE n \in 0..4 : ToString(n) = value[1] ELSE 0

Expects(headers) ==
  \E i \in DOMAIN headers : headers[i] = [name |-> <<"expect">>, value |-> <<"100-continue">>]

\* The content length is looked for unless it is there already.
EndOfHeaders(req) ==
  LET lengths == Named(req.headers, "length")
      length  == IF req.content_length # 0 THEN req.content_length ELSE atoi(Head(lengths).value)
      next    == [req EXCEPT !.state = "content_start"]
  IN IF req.content_length = 0 /\ lengths = <<>> THEN Parsed(next, "bad")
     ELSE Parsed([next EXCEPT !.content_length = length],
                 CASE length = 0           -> "good"
                   [] Expects(req.headers) -> "processing_continue"
                   [] OTHER                -> "indeterminate")

\* Faulty variant: one character too many is waited for.
TakeContentOneMore(req, input) ==
  LET content == Append(req.content, input)
  IN Parsed([req EXCEPT !.content = content],
            IF Len(content) <= req.content_length THEN "indeterminate" ELSE "good")

TakeContent(req, input) ==
  LET content == Append(req.content, input)
  IN Parsed([req EXCEPT !.content = content],
            IF Len(content) < req.content_length THEN "indeterminate" ELSE "good")

-----------------------------------------------------------------------------
consume(req, input) ==
  LET moves == Applicable(req, input)
      m     == CHOOSE m \in moves : TRUE
  IN CASE req.state = "content_start" -> TakeContent(req, input)
       [] req.state = "expecting_newline_3" /\ input = "LF" -> EndOfHeaders(req)
       [] moves # {} -> Parsed([req EXCEPT !.state = m.to, !.headers = Push(@, m.push, input)],
                               "indeterminate")
       [] OTHER -> Parsed(req, "bad")

\* What follows the first result in the same read is dropped.
RECURSIVE parse(_, _)
parse(req, inputs) ==
  IF inputs = <<>> THEN Parsed(req, "indeterminate")
  ELSE LET p == consume(req, Head(inputs))
       IN IF p.result = "indeterminate" THEN parse(p.req, Tail(inputs)) ELSE p
=============================================================================
