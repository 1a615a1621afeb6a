--------------------------- MODULE HttpConnection ---------------------------
(***************************************************************************)
(* One HTTP connection: Connection::do_read and do_write (http/            *)
(* connection.cpp) and RequestHandler::handle_request with its batch loop  *)
(* (http/request_handler.cpp), for a client that waits for the reply of a  *)
(* request before it sends the next one.                                   *)
(*                                                                         *)
(* A read takes any part of what has arrived.  What a method handler does  *)
(* is in RequestLife; here it answers or fails, and its answer is named by *)
(* the item it answers.                                                    *)
(***************************************************************************)
EXTENDS RequestParser

CONSTANTS Requests,      \* what the client may ask: [headers, content]
          MaxRequests    \* bound on the requests of a connection

ASSUME ConnectionAssumption ==
  /\ MaxRequests \in Nat
  /\ \A r \in Requests : r.content \in Seq(Chars)

VARIABLES jwt_secret, \* the server has a secret: requests need a token
          pc,        \* where do_read is: "reading", "handling", "stock", "closed", or "failed":
                     \* an exception has left it, and ends the process (server.cpp)
          req,       \* request_ with the state of request_parser_
          todo,      \* items of the content that handle_request has yet to take
          batch,     \* batch_reply_content and first_element
          reply,     \* the reply being built: its status and content
          wire,      \* characters that have arrived and are not read
          asked,     \* requests the client has sent
          unsent,    \* the content the client holds back until it may continue
          received,  \* replies the client has got
          handled    \* items that were given to a method handler

vars == <<jwt_secret, pc, req, todo, batch, reply, wire, asked, unsent, received, handled>>

NoBatch == [content |-> <<>>, first |-> TRUE]

NoReply == [status |-> "none", content |-> <<>>]

Init ==
  /\ jwt_secret \in BOOLEAN
  /\ pc = "reading" /\ req = NewRequest
  /\ todo = <<>> /\ batch = NoBatch /\ reply = NoReply
  /\ wire = <<>> /\ asked = <<>> /\ unsent = <<>> /\ received = <<>> /\ handled = {}

-----------------------------------------------------------------------------
(* The client.                                                             *)

HeaderChars(h) == h.name \o <<":", "SP">> \o h.value \o <<"CR", "LF">>

HeadChars(r) ==
  <<"POST", "SP", "/", "SP", "H", "T", "T", "P", "/", "1", ".", "1", "CR", "LF">>
  \o FoldLeft(LAMBDA chars, h : chars \o HeaderChars(h), <<>>, r.headers) \o <<"CR", "LF">>

Ask(r) ==
  /\ pc \notin {"closed", "failed"} /\ Len(asked) < MaxRequests /\ Len(received) >= Len(asked)
  /\ asked' = Append(asked, r)
  /\ \/ /\ Expects(r.headers) /\ wire' = wire \o HeadChars(r) /\ unsent' = r.content
     \/ /\ ~Expects(r.headers) /\ wire' = wire \o HeadChars(r) \o r.content /\ unsent' = <<>>
  /\ UNCHANGED <<jwt_secret, pc, req, todo, batch, reply, received, handled>>

\* The client closes the connection; do_read ends at its next read or write.
ClientCloses ==
  /\ pc \in {"reading", "stock"} \/ (pc = "handling" /\ todo = <<>>)
  /\ pc' = "closed"
  /\ UNCHANGED <<jwt_secret, req, todo, batch, reply, wire, asked, unsent, received, handled>>

-----------------------------------------------------------------------------
(* Connection.                                                             *)

\* clean(): request, parser and reply are reset.
Cleared == NewRequest

\* The status of a new Reply is not initialized: "unset" is sent as any status.
do_read(n) ==
  LET parsed == parse(req, SubSeq(wire, 1, n))
  IN /\ pc = "reading" /\ n \in 1..Len(wire)
     /\ wire' = SubSeq(wire, n + 1, Len(wire))
     /\ req' = parsed.req
     /\ \/ /\ parsed.result = "good"
           /\ pc' = "handling" /\ todo' = <<"start">> /\ reply' = [NoReply EXCEPT !.status = "unset"]
        \/ /\ parsed.result \in {"bad", "processing_continue"}
           /\ pc' = "stock" /\ reply' = [NoReply EXCEPT !.status = parsed.result]
           /\ UNCHANGED todo
        \/ /\ parsed.result = "indeterminate" /\ UNCHANGED <<pc, todo, reply>>
     /\ UNCHANGED <<jwt_secret, batch, asked, unsent, received, handled>>

\* do_write of a stock reply.  After "100 Continue" the request goes on.
do_write ==
  /\ pc = "stock" /\ pc' = "reading" /\ reply' = NoReply
  /\ \/ /\ reply.status = "bad"
        /\ received' = Append(received, reply) /\ req' = Cleared /\ UNCHANGED <<wire, unsent>>
     \/ /\ reply.status = "processing_continue"
        /\ wire' = wire \o unsent /\ unsent' = <<>> /\ UNCHANGED <<received, req>>
  /\ UNCHANGED <<jwt_secret, todo, batch, asked, handled>>

-----------------------------------------------------------------------------
(* RequestHandler.                                                         *)

\* Nothing, when the request may be handled; else the error.
is_request_authorized(headers) ==
  LET found == Named(headers, "auth")
      value == Head(found).value
  IN CASE ~jwt_secret                            -> "none"
       [] found = <<>>                           -> "missing Authorization Header"
       [] value = <<>> \/ value[1] # "Bearer SP" -> "missing token"
       [] Tail(value) = <<"no_iat">>             -> "iat(Issued At) not defined"
       [] Tail(value) # <<"valid">>              -> "invalid token"
       [] OTHER                                  -> "none"

\* Faulty variant: any Authorization header will do.
AuthorizedByHeader == jwt_secret => Named(req.headers, "auth") # <<>>

Authorized == is_request_authorized(req.headers) = "none"

\* No content, an object, an array, or text that json::parse throws out.
StartRequest ==
  /\ pc = "handling" /\ todo = <<"start">>
  /\ \/ /\ req.content = <<>>
        /\ reply' = [status |-> "no_content", content |-> <<>>]
        /\ todo' = <<>> /\ UNCHANGED <<pc, batch>>
     \/ /\ req.content # <<>> /\ Head(req.content) = "{"
        /\ todo' = Tail(req.content) /\ batch' = NoBatch /\ UNCHANGED <<pc, reply>>
     \/ /\ req.content # <<>> /\ Head(req.content) = "["
        /\ todo' = Tail(req.content) /\ batch' = [NoBatch EXCEPT !.content = <<"[">>] /\ UNCHANGED <<pc, reply>>
     \/ /\ req.content # <<>> /\ Head(req.content) \notin {"{", "["}
        /\ pc' = "failed" /\ todo' = <<>> /\ UNCHANGED <<batch, reply>>
  /\ UNCHANGED <<jwt_secret, req, wire, asked, unsent, received, handled>>

InBatch == batch # NoBatch

Newline == <<"LF">>

\* An item without an id, or one that is not authorized: no handler is called.
RefuseItem ==
  /\ pc = "handling" /\ todo # <<>> /\ Head(todo) \in Items \ {"bad_id"}
  /\ Head(todo) = "no_id" \/ ~Authorized
  /\ reply' = IF Head(todo) = "no_id" THEN [status |-> "ok", content |-> Newline]
              ELSE [status |-> "unauthorized", content |-> <<"error">> \o Newline]
  /\ todo' = Tail(todo)
  /\ UNCHANGED <<jwt_secret, pc, req, batch, wire, asked, unsent, received, handled>>

Extended(content) ==
  [content |-> (IF batch.first THEN batch.content ELSE Append(batch.content, ",")) \o content,
   first   |-> FALSE]

\* handle_request of one item, up to the reply that it leaves.
ItemReplies(item) ==
  CASE item = "no_method" -> {[status |-> "bad_request", content |-> <<item>>]}
    [] item = "unknown"   -> {[status |-> "not_implemented", content |-> <<item>>]}
    [] item = "stream"    -> {reply}
    [] OTHER              -> {[status |-> s, content |-> <<item>>] : s \in {"ok", "internal_server_error"}}

\* Faulty variant: a batch has no commas.
HandleItemUnseparated ==
  /\ pc = "handling" /\ todo # <<>> /\ Head(todo) \in Items \ {"no_id", "bad_id", "bad_method"}
  /\ Authorized
  /\ \E r \in ItemReplies(Head(todo)) :
       /\ reply' = IF InBatch THEN r ELSE [r EXCEPT !.content = @ \o Newline]
       /\ batch' = IF InBatch THEN [batch EXCEPT !.content = @ \o r.content] ELSE batch
  /\ received' = IF Head(todo) = "stream" THEN Append(received, [status |-> "ok", content |-> <<"stream">>])
                 ELSE received
  /\ handled' = handled \cup {<<Len(asked), Head(todo)>>}
  /\ todo' = Tail(todo)
  /\ UNCHANGED <<jwt_secret, pc, req, wire, asked, unsent>>

\* A streamed item is written at once, and the reply stays that of the item before.
HandleItem ==
  /\ pc = "handling" /\ todo # <<>> /\ Head(todo) \in Items \ {"no_id", "bad_id", "bad_method"}
  /\ Authorized
  /\ \E r \in ItemReplies(Head(todo)) :
       /\ reply' = IF InBatch THEN r ELSE [r EXCEPT !.content = @ \o Newline]
       /\ batch' = IF InBatch THEN Extended(r.content) ELSE batch
  /\ received' = IF Head(todo) = "stream" THEN Append(received, [status |-> "ok", content |-> <<"stream">>])
                 ELSE received
  /\ handled' = handled \cup {<<Len(asked), Head(todo)>>}
  /\ todo' = Tail(todo)
  /\ UNCHANGED <<jwt_secret, pc, req, wire, asked, unsent>>

\* An id that is not a number, which is converted before the authorization, or
\* a method that is not a string: the exception leaves handle_request without a
\* reply, and then do_read.
FailItem ==
  /\ pc = "handling" /\ todo # <<>>
  /\ Head(todo) = "bad_id" \/ (Head(todo) = "bad_method" /\ Authorized)
  /\ pc' = "failed" /\ todo' = <<>>
  /\ UNCHANGED <<jwt_secret, req, batch, reply, wire, asked, unsent, received, handled>>

\* do_write(reply), and then the connection cleans up and reads on.
EndRequest ==
  LET content == IF InBatch THEN batch.content \o <<"]">> \o Newline ELSE reply.content
  IN /\ pc = "handling" /\ todo = <<>>
     /\ received' = Append(received, [reply EXCEPT !.content = content])
     /\ pc' = "reading" /\ req' = Cleared /\ batch' = NoBatch /\ reply' = NoReply
     /\ UNCHANGED <<jwt_secret, todo, wire, asked, unsent, handled>>

Serve ==
  \/ \E n \in 1..Len(wire) : do_read(n)
  \/ do_write \/ StartRequest \/ RefuseItem \/ HandleItem \/ FailItem \/ EndRequest

Next == (\E r \in Requests : Ask(r)) \/ ClientCloses \/ Serve

\* The server reads what has arrived and goes on; clients owe nothing.
Spec == Init /\ [][Next]_vars /\ WF_vars(Serve)

-----------------------------------------------------------------------------
(* Properties.                                                             *)

HasToken(r) ==
  jwt_secret => \E i \in DOMAIN r.headers :
                  r.headers[i] = [name |-> <<"auth">>, value |-> <<"Bearer SP", "valid">>]

\* The items of a batch that have an answer, with commas between them.
Answered(r) == SelectSeq(Tail(r.content), LAMBDA item : item # "no_id" /\ HasToken(r))

Joined(items) ==
  [i \in 1..(IF items = <<>> THEN 0 ELSE 2 * Len(items) - 1) |->
     IF i % 2 = 1 THEN items[(i + 1) \div 2] ELSE ","]

IsReplyTo(r, rep) ==
  LET item == r.content[2]
  IN CASE Named(r.headers, "length") = <<>> -> rep.status = "bad"
       [] r.content = <<>>    -> rep.status = "no_content"
       [] r.content[1] = "["  -> rep.content = <<"[">> \o Joined(Answered(r)) \o <<"]", "LF">>
       [] item = "no_id"      -> rep.content = <<"LF">>
       [] ~HasToken(r)        -> rep.status = "unauthorized"
       [] OTHER               -> rep.content = <<item, "LF">>

Streamed(r) == \E i \in DOMAIN r.content : r.content[i] = "stream"

\* However the characters of the requests are cut into reads, and whatever the
\* requests before have left in the parser, the request and the reply (clean),
\* each request gets one reply, its own, in order: an object its answer, a batch
\* the answers of its items in order, a request without length a 400.  Streamed
\* methods are left out: handle_request writes a second reply after the stream.
RepliesMatchRequests ==
  (\A i \in DOMAIN asked : ~Streamed(asked[i])) =>
     /\ Len(received) <= Len(asked)
     /\ \A i \in DOMAIN received : IsReplyTo(asked[i], received[i])

\* With a secret, a method handler runs only for a request that carries a valid
\* token, also inside a batch (is_request_authorized before every item), and
\* never for the token of an earlier request.
HandledOnlyWithToken == \A h \in handled : HasToken(asked[h[1]])

\* An exception leaves handle_request: the content is not JSON, an id is not a
\* number, or the method of an authorized item is not a string.
Throws(r) ==
  \/ r.content = <<"text">>
  \/ \E i \in DOMAIN r.content : r.content[i] = "bad_id"
  \/ HasToken(r) /\ \E i \in DOMAIN r.content : r.content[i] = "bad_method"

\* A request that is sent is answered, unless the client leaves or the request
\* cannot be converted (Throws, which ends the process): the parser does not
\* wait for more than was sent, and goes on after "100 Continue", after a bad
\* request and after items that are refused.
RequestsAreAnswered ==
  \A n \in 1..MaxRequests :
    Len(asked) = n ~> \/ Len(received) >= n \/ pc = "closed"
                      \/ n \in DOMAIN asked /\ Throws(asked[n])
=============================================================================
