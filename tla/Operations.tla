----------------------------- MODULE Operations -----------------------------
(***************************************************************************)
(* The vocabulary of the client packages.  Every client offers operations  *)
(* that never reject unless throwOnError asks for it: they resolve to a    *)
(* result, a record with a kind, the flags processed and ok, an error and  *)
(* data fields.  A result is a Success (processed, ok), an Error           *)
(* (processed, not ok) or a Failure (neither).                             *)
(*                                                                         *)
(* A value is one of the cases the assertions of the expect package tell   *)
(* apart: nullish values, falsy ones, and empty or non-empty collections.  *)
(***************************************************************************)
EXTENDS Sequences

Null == "null"
Undefined == "undefined"
Zero == "0"
Number == "number"
EmptyText == "''"
Text == "text"
EmptyList == "[]"
List == "[item]"
Object == "{}"
True == "true"
False == "false"

Nullish == {Null, Undefined}
Numbers == {Zero, Number}
Texts == {EmptyText, Text}
Lists == {EmptyList, List}
Booleans == {True, False}
Values ==
  Nullish \cup Numbers \cup Texts \cup Lists \cup Booleans \cup {Object}

\* v ?? w
OrElse(v, w) == IF v \in Nullish THEN w ELSE v

\* v?.length
LengthOf(v) ==
  CASE v \in {EmptyList, EmptyText} -> Zero
    [] v \in {List, Text}           -> Number
    [] OTHER                        -> Undefined

(***************************************************************************)
(* Why an operation ends without the answer it asked for.  A client reads  *)
(* errors by their class, code or message, so it may take one for another. *)
(***************************************************************************)
Causes ==
  {"closed",      \* the client or channel is closed
   "invalid",     \* the arguments or the state of the client forbid it
   "server",      \* the server refuses
   "misread",     \* the server refuses in words that suggest a connection error
   "connection",  \* the connection breaks, with an error the client knows
   "broken",      \* the connection breaks, with an error it does not know
   "timeout",     \* options.timeout has passed
   "abort",       \* options.signal is aborted, with the default reason
   "reason"}      \* options.signal is aborted, with a reason of the caller's own

(***************************************************************************)
(* A class of results: its kind, and the data of an Error and of a Failure *)
(* that come without an answer of the server.                              *)
(***************************************************************************)
Result(kind, error, failure) ==
  [kind |-> kind, error |-> error, failure |-> failure]

\* What a client makes of an answer of the server.
Success(data) == [outcome |-> "Success", error |-> Null, data |-> data]
Refusal(data) == [outcome |-> "Error", error |-> Object, data |-> data]
NoResponse(data) == [outcome |-> "Failure", error |-> Object, data |-> data]

(***************************************************************************)
(* An operation: its class of results, what it makes of the answers the    *)
(* server may give, the causes that end in a Failure (the others end in an *)
(* Error), and what its code does around the request:                      *)
(*   "closed"    it refuses to start on a closed client                    *)
(*   "invalid"   it may refuse before it sends anything                    *)
(*   "registry"  it awaits the registry of schemas before and after        *)
(*   "timeout"   it obeys options.timeout                                  *)
(*   "signal"    it obeys options.signal                                   *)
(*   "eager"     but sends the request before it looks at the signal       *)
(*   "answer"    it waits for an answer of the server                      *)
(*   "drain"     it may wait for room in the buffer of the socket          *)
(*   "body"      it reads the body of the answer in a second await         *)
(*   "caught"    and may take an error of that as a Failure                *)
(***************************************************************************)
Operation(name, result, answers, failures, code) ==
  [name |-> name, result |-> result, answers |-> answers,
   failures |-> failures, code |-> code]

=============================================================================
