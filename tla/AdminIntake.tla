---------------------------- MODULE AdminIntake -----------------------------
(***************************************************************************)
(* One HTTP request to the API: AdminRequestBodyLimitMiddleware around     *)
(* POST /admin/run-once.  The body arrives in messages the client chooses; *)
(* FastAPI (external) reads it to its end, turns an error of the read into *)
(* a 400 reply, resolves the dependencies and validates the payload before *)
(* it calls the endpoint, and replies once.                                *)
(***************************************************************************)
EXTENDS Naturals, Sequences

CONSTANTS
  Requests,     \* the requests: path, headers and what the body will parse to
  MaxBytes,     \* maximum_body_bytes
  ChunkSizes,   \* sizes of http.request messages
  NoReply

ASSUME IntakeAssumption ==
  MaxBytes \in Nat \ {0} /\ ChunkSizes \subseteq Nat /\ NoReply \notin Nat

VARIABLES
  request,    \* the request and the configuration of the process
  step,       \* "arrived", "receiving", "handling", "replying", "returned", "ended"
  observed,   \* observed_body_bytes
  delivered,  \* the bytes the application has received
  exceeded,   \* body_limit_exceeded
  reply,      \* the status the application is about to send
  answers,    \* the responses started towards the client
  runs        \* how often the coordinator was called

intakeVars == <<request, step, observed, delivered, exceeded, reply, answers, runs>>

(* _is_admin_run_once_scope: with or without the deployment's root path *)
Guarded == request.path \in {"admin", "root/admin"}

DeclaredTooLarge == \E n \in request.declared : n > MaxBytes
-----------------------------------------------------------------------------
(* Any other path is passed on untouched. *)
PassThrough ==
  /\ step = "arrived" /\ ~Guarded
  /\ step' = "ended"
  /\ UNCHANGED <<request, observed, delivered, exceeded, reply, answers, runs>>

Answer(status) == step' = "ended" /\ answers' = Append(answers, status)

RefuseDeclared ==
  /\ step = "arrived" /\ Guarded /\ DeclaredTooLarge
  /\ Answer(413)
  /\ UNCHANGED <<request, observed, delivered, exceeded, reply, runs>>

Forward ==
  /\ step = "arrived" /\ Guarded /\ ~DeclaredTooLarge
  /\ step' = "receiving"
  /\ UNCHANGED <<request, observed, delivered, exceeded, reply, answers, runs>>

(* limited_receive: past the limit the application gets an exception, which *)
(* it lets through or turns into a reply.                                   *)
Receive(size, more) ==
  /\ step = "receiving"
  /\ observed' = observed + size
  /\ IF observed + size > MaxBytes
     THEN /\ exceeded' = TRUE
          /\ step' = "replying" /\ reply' \in {400, NoReply}
          /\ UNCHANGED delivered
     ELSE /\ delivered' = delivered + size
          /\ step' = IF more THEN "receiving" ELSE "handling"
          /\ UNCHANGED <<exceeded, reply>>
  /\ UNCHANGED <<request, answers, runs>>

(* http.disconnect passes limited_receive and fails the read. *)
Disconnect ==
  /\ step = "receiving"
  /\ step' = "replying" /\ reply' = 400
  /\ UNCHANGED <<request, observed, delivered, exceeded, answers, runs>>

(* require_admin_token *)
TokenRefusal ==
  IF ~request.configured THEN 503
  ELSE IF request.token # "right" THEN 401
  ELSE IF ~request.wired THEN 503 ELSE NoReply

(* FastAPI parses the body, resolves the dependency, validates the payload; *)
(* then the request builder looks the plan up.                              *)
Refusal ==
  IF request.body = "malformed" THEN 422
  ELSE IF TokenRefusal # NoReply THEN TokenRefusal
  ELSE IF request.body # "dry_run" THEN 422
  ELSE IF ~request.planKnown THEN 404 ELSE NoReply

Refuse ==
  /\ step = "handling" /\ Refusal # NoReply
  /\ step' = "replying" /\ reply' = Refusal
  /\ UNCHANGED <<request, observed, delivered, exceeded, answers, runs>>

(* run_once: the coordinator's disposition, 409 for API_CONFLICT. *)
RunOnce ==
  /\ step = "handling" /\ Refusal = NoReply
  /\ runs' = runs + 1
  /\ step' = "replying" /\ reply' \in {200, 409}
  /\ UNCHANGED <<request, observed, delivered, exceeded, answers>>

(* The request builder or the coordinator raises: through the middleware to *)
(* the server, which answers 500.                                           *)
RunRaises ==
  /\ step = "handling" /\ Refusal = NoReply
  /\ runs' = runs + 1
  /\ Answer(500)
  /\ UNCHANGED <<request, observed, delivered, exceeded, reply>>

(* A bug: limited_send does not look at the flag. *)
ReplyAnyway ==
  /\ step = "replying"
  /\ step' = "returned"
  /\ answers' = IF reply = NoReply THEN answers ELSE Append(answers, reply)
  /\ UNCHANGED <<request, observed, delivered, exceeded, reply, runs>>

(* limited_send *)
Reply ==
  /\ step = "replying"
  /\ step' = "returned"
  /\ answers' = IF exceeded \/ reply = NoReply THEN answers ELSE Append(answers, reply)
  /\ UNCHANGED <<request, observed, delivered, exceeded, reply, runs>>

(* The application returned, or its exception was caught. *)
Conclude ==
  /\ step = "returned"
  /\ IF exceeded THEN Answer(413) ELSE step' = "ended" /\ UNCHANGED answers
  /\ UNCHANGED <<request, observed, delivered, exceeded, reply, runs>>

IntakeInit ==
  /\ request \in Requests
  /\ step = "arrived" /\ observed = 0 /\ delivered = 0 /\ exceeded = FALSE
  /\ reply = NoReply /\ answers = <<>> /\ runs = 0

IntakeNext ==
  \/ PassThrough \/ RefuseDeclared \/ Forward
  \/ \E size \in ChunkSizes, more \in BOOLEAN : Receive(size, more)
  \/ Disconnect \/ Refuse \/ RunOnce \/ RunRaises \/ Reply \/ Conclude

IntakeSpec == IntakeInit /\ [][IntakeNext]_intakeVars
-----------------------------------------------------------------------------
IntakeTypeOK ==
  /\ step \in {"arrived", "receiving", "handling", "replying", "returned", "ended"}
  /\ delivered <= observed /\ runs \in {0, 1}

(* The body limit of body_size.py with the guard of the endpoint behind it: *)
(* however the body is cut into messages, whatever length is declared and   *)
(* whatever the application does with the exception, it never receives more *)
(* than the limit, an oversize request is answered by exactly one 413 and   *)
(* never coordinated, one within the limit never by 413, and only a valid   *)
(* token and dry-run payload reach the coordinator, once.                   *)
OversizeIsRefused ==
  /\ delivered <= MaxBytes
  /\ Len(answers) <= 1
  /\ (413 \in {answers[i] : i \in DOMAIN answers})
       <=> (step = "ended" /\ Guarded /\ (DeclaredTooLarge \/ observed > MaxBytes))
  /\ (step = "ended" /\ Guarded) => Len(answers) = 1
  /\ runs > 0 => /\ request.configured /\ request.wired /\ request.token = "right"
                 /\ request.body = "dry_run" /\ request.planKnown /\ observed <= MaxBytes
=============================================================================
