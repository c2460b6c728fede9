------------------------------ MODULE ApiErrors ------------------------------
(***************************************************************************)
(* A failure on its way from the service to the screen: HttpExceptionFilter *)
(* makes it a response, the wire may lose or replace that, BaseHttpService *)
(* makes what arrives an ApiError, resolveErrorText a text.                *)
(*                                                                         *)
(* A failure is [by, status, code, named]: by "app" for an exception of    *)
(* the service with its own code, by "framework" for one of Nest, by       *)
(* "other" for anything else thrown.  named are the fields its details     *)
(* name.                                                                   *)
(***************************************************************************)
EXTENDS Naturals

(* error-codes.ts: status * 100 + serial. *)
ErrorCode ==
    {40000, 40400, 40401, 40900, 40901, 42200, 42201, 42202, 42203, 42204, 42900, 50000}

InternalError == 50000

App(code, named) ==
    [by |-> "app", status |-> code \div 100, code |-> code, named |-> named]

Framework(status) ==
    [by |-> "framework", status |-> status, code |-> 0, named |-> {}]

Other == [by |-> "other", status |-> 500, code |-> 0, named |-> {}]

DefaultErrorCodeForStatus(status) == status * 100

(* Fault: the status is sent for the code. *)
ToResponseStatus(f) ==
    [status |-> f.status, envelope |-> TRUE, named |-> f.named,
     code |-> CASE f.by = "app" -> f.code [] f.by = "framework" -> f.status
                [] OTHER -> InternalError]

(* HttpExceptionFilter.catch *)
ToResponse(f) ==
    [status |-> f.status, envelope |-> TRUE, named |-> f.named,
     code |-> CASE f.by = "app" -> f.code
                [] f.by = "framework" -> DefaultErrorCodeForStatus(f.status)
                [] OTHER -> InternalError]

(* A gateway answers in the service's place, with a page of its own. *)
Garbled(status) == [status |-> status, envelope |-> FALSE, named |-> {}, code |-> 0]

EnvelopeErrorCode(r) ==
    IF r.envelope /\ r.code \in ErrorCode THEN r.code ELSE InternalError

NetworkError == [code |-> InternalError, status |-> 0, named |-> {}, network |-> TRUE]

(* toApiError of a response; without one it is NetworkError. *)
ToApiError(r) ==
    [code |-> EnvelopeErrorCode(r), status |-> r.status, named |-> r.named,
     network |-> FALSE]

(* resolveErrorText: a key of the dictionary, never the server's message. *)
ErrorText(e) ==
    IF e.network THEN "network"
    ELSE CASE e.code \in {40000, 42200, 42201} -> "invalid-details"
           [] e.code = 40400 -> "task-not-found"
           [] e.code = 40401 -> "user-not-found"
           [] e.code = 40900 -> "task-closed"
           [] e.code = 40901 -> "task-changed"
           [] e.code \in {42202, 42204} -> "invalid-action"
           [] e.code = 42203 -> "missing-fields"
           [] e.code = 42900 -> "too-many-requests"
           [] OTHER -> "generic"
==============================================================================
