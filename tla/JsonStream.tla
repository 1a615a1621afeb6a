----------------------------- MODULE JsonStream -----------------------------
(***************************************************************************)
(* json::Stream and ChunksWriter: how a streamed reply is built            *)
(* (json/stream.cpp, types/writer.cpp), and how a client reads it.         *)
(*                                                                         *)
(* Text is abstracted to its tokens.  A token is a string of size one, and *)
(* the dump of a JSON value is a string of four pieces, so that a value    *)
(* can be longer than a chunk and a lost or repeated piece is seen.        *)
(***************************************************************************)
EXTENDS Naturals, Sequences, SequencesExt

CONSTANT ChunkSize    \* chunck_size_ of the ChunksWriter

ASSUME SizeAssumption == ChunkSize \in Nat \ {0}

Value == <<"piece1", "piece2", "piece3", "piece4">>

-----------------------------------------------------------------------------
(* ChunksWriter.  The buffer holds chunck_size_ - available_ tokens.        *)

NewWriter == [buffer |-> <<>>, sent |-> <<>>]

Available(w) == ChunkSize - Len(w.buffer)

\* A chunk is its size line and its data; nothing is written for no data.
flush(w) ==
  [buffer |-> <<>>,
   sent   |-> IF w.buffer = <<>> THEN w.sent
              ELSE Append(w.sent, [size |-> Len(w.buffer), data |-> w.buffer])]

\* What fits is copied; a full buffer is flushed and the rest goes on.
RECURSIVE write(_, _)
write(w, str) ==
  IF Available(w) > Len(str)
    THEN [w EXCEPT !.buffer = @ \o str]
    ELSE LET count == Available(w)
             full  == flush([w EXCEPT !.buffer = @ \o SubSeq(str, 1, count)])
         IN IF Len(str) = count THEN full
            ELSE write(full, SubSeq(str, count + 1, Len(str)))

FinalChunk == [size |-> 0, data |-> <<>>]

close(w) == [flush(w) EXCEPT !.sent = Append(@, FinalChunk)]

WriteAll(w, strings) == FoldLeft(write, w, strings)

-----------------------------------------------------------------------------
(* json::Stream.  Each operation gives the new stack and the strings that  *)
(* it writes.                                                              *)

Top(stack) == IF stack = <<>> THEN "none" ELSE Last(stack)

\* The values of an array are separated from the second on.
Entry(stack) ==
  CASE Top(stack) = "array_open"    -> [stack |-> Append(stack, "entry_written"), out |-> <<>>]
    [] Top(stack) = "entry_written" -> [stack |-> stack, out |-> << <<",">> >>]
    [] OTHER                        -> [stack |-> stack, out |-> <<>>]

\* Faulty variant: the first field is not remembered.
EnsureSeparatorForgets(stack) ==
  [stack |-> stack, out |-> IF Top(stack) = "field_written" THEN << <<",">> >> ELSE <<>>]

ensure_separator(stack) ==
  CASE Top(stack) = "none"          -> [stack |-> stack, out |-> <<>>]
    [] Top(stack) = "field_written" -> [stack |-> stack, out |-> << <<",">> >>]
    [] OTHER                        -> [stack |-> Append(stack, "field_written"), out |-> <<>>]

open_object(stack) ==
  LET entry == Entry(stack)
  IN [stack |-> Append(entry.stack, "object_open"), out |-> Append(entry.out, <<"{">>)]

\* An empty std::stack cannot be popped: here it stays empty.
Pop(stack) == IF stack = <<>> THEN <<>> ELSE Front(stack)

close_object(stack) ==
  [stack |-> Pop(IF Top(stack) = "field_written" THEN Pop(stack) ELSE stack), out |-> << <<"}">> >>]

open_array(stack) == [stack |-> Append(stack, "array_open"), out |-> << <<"[">> >>]

close_array(stack) ==
  [stack |-> Pop(IF Top(stack) \in {"entry_written", "field_written"} THEN Pop(stack) ELSE stack),
   out   |-> << <<"]">> >>]

write_json(stack) ==
  LET entry == Entry(stack) IN [entry EXCEPT !.out = Append(@, Value)]

write_name(stack) ==
  LET entry == ensure_separator(stack) IN [entry EXCEPT !.out = @ \o << <<"name">>, <<":">> >>]

write_field(stack) ==
  LET field == write_name(stack) IN [field EXCEPT !.out = Append(@, Value)]

-----------------------------------------------------------------------------
(* The client: JSON as its grammar defines it, read token by token.        *)
(* `want` is what may come next, `open` the containers not yet closed.     *)

Nothing == [open |-> <<>>, want |-> "value"]

Complete(doc) == doc.want = "end"

\* After a value: the end of the text, or a separator or a closing bracket.
After(open) == [open |-> open, want |-> IF open = <<>> THEN "end" ELSE "separator"]

Bad(doc) == [doc EXCEPT !.want = "bad"]

Accept(doc, token) ==
  LET valueWanted == doc.want \in {"value", "value_or_end"}
      Opens(c, w) == [open |-> Append(doc.open, c), want |-> w]
      Closes(c)   == doc.open # <<>> /\ Last(doc.open) = c
      piece       == CHOOSE i \in DOMAIN Value : Value[i] = token
  IN CASE token \in ToSet(Value) ->
            IF (piece = 1 /\ valueWanted) \/ doc.want = token
              THEN IF piece = Len(Value) THEN After(doc.open)
                   ELSE [doc EXCEPT !.want = Value[piece + 1]]
              ELSE Bad(doc)
       [] token = "{" -> IF valueWanted THEN Opens("object", "name_or_end") ELSE Bad(doc)
       [] token = "[" -> IF valueWanted THEN Opens("array", "value_or_end") ELSE Bad(doc)
       [] token = "}" -> IF Closes("object") /\ doc.want \in {"name_or_end", "separator"}
                           THEN After(Front(doc.open)) ELSE Bad(doc)
       [] token = "]" -> IF Closes("array") /\ doc.want \in {"value_or_end", "separator"}
                           THEN After(Front(doc.open)) ELSE Bad(doc)
       [] token = "," -> IF doc.want = "separator"
                           THEN [doc EXCEPT !.want = IF Closes("object") THEN "name" ELSE "value"]
                           ELSE Bad(doc)
       [] token = "name" -> IF doc.want \in {"name", "name_or_end"}
                              THEN [doc EXCEPT !.want = "colon"] ELSE Bad(doc)
       [] token = ":" -> IF doc.want = "colon" THEN [doc EXCEPT !.want = "value"] ELSE Bad(doc)

AcceptAll(doc, tokens) == FoldLeft(Accept, doc, tokens)
=============================================================================
