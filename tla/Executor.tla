------------------------------ MODULE Executor ------------------------------
(***************************************************************************)
(* One provider call, as the rest of the pipeline sees it: the outcome      *)
(* executeBatch builds (executor/index.js), how the two families of SDK     *)
(* adapters classify a failure (executor/errors.js for the five generated   *)
(* SDKs, executor/gemini.js for Google's) and which outcomes the dispatcher *)
(* may answer with another provider (dispatcher/policy.js).                 *)
(*                                                                          *)
(* Abstracted: tokens, latency, the message of an error and the prompt.  A  *)
(* failure is named by what happened to the call; the classifiers say what  *)
(* the program makes of it.                                                 *)
(***************************************************************************)
CONSTANTS Provider,     \* provider names
          Gemini,       \* those served by the @google/genai adapter
          Output        \* the texts a provider may answer with

ASSUME GeminiAssumption == Gemini \subseteq Provider

(* What can go wrong with a call: its timeout fires, HTTP 429, HTTP 401,    *)
(* the connection fails (DNS, reset), any other HTTP error, or an exception *)
(* the SDK has no class for.  The classifiers keep the SDK's own name for   *)
(* the last two (BadRequestError, ApiError_404, TypeError, ...): nothing    *)
(* looks at it but a log, so one class stands for each of the two.          *)
Failure == {"timeout", "rate_limit", "unauthorized", "connection", "api_error", "unknown"}

NoOutput == "no output"

Status == {"success", "quota_exceeded", "timeout", "error"}

ErrorClass == {"none", "APIConnectionTimeoutError", "RateLimitError", "AuthenticationError",
               "APIConnectionError", "RequestTimeoutError", "ConnectionError", "APIError",
               "UnknownError"}

Outcome == [status : Status, errorClass : ErrorClass, output : Output \cup {NoOutput}]

(* The SDK classes a generated SDK's error object is an instance of.        *)
InstanceOf(f) ==
  CASE f = "timeout"      -> {"APIConnectionTimeoutError", "APIConnectionError", "APIError"}
    [] f = "rate_limit"   -> {"RateLimitError", "APIError"}
    [] f = "unauthorized" -> {"AuthenticationError", "APIError"}
    [] f = "connection"   -> {"APIConnectionError", "APIError"}
    [] f = "api_error"    -> {"APIError"}
    [] OTHER              -> {}

Failed(status, class) == [status |-> status, errorClass |-> class, output |-> NoOutput]

(* classifyError: the most specific class first, because a timeout is also  *)
(* a connection error.                                                      *)
classifyError(f) ==
  LET Is(class) == class \in InstanceOf(f) IN
  IF Is("APIConnectionTimeoutError") THEN Failed("timeout", "APIConnectionTimeoutError")
  ELSE IF Is("RateLimitError") THEN Failed("quota_exceeded", "RateLimitError")
  ELSE IF Is("AuthenticationError") THEN Failed("error", "AuthenticationError")
  ELSE IF Is("APIConnectionError") THEN Failed("error", "APIConnectionError")
  ELSE IF Is("APIError") THEN Failed("error", "APIError")
  ELSE Failed("error", "UnknownError")

(* classifyGeminiError: the SDK exports only ApiError, so the timeout and   *)
(* connection family is told apart by the name the SDK gives the object.    *)
classifyGeminiError(f) ==
  CASE f = "timeout"      -> Failed("timeout", "RequestTimeoutError")
    [] f = "connection"   -> Failed("error", "ConnectionError")
    [] f = "rate_limit"   -> Failed("quota_exceeded", "RateLimitError")
    [] f = "unauthorized" -> Failed("error", "AuthenticationError")
    [] f = "api_error"    -> Failed("error", "APIError")
    [] OTHER              -> Failed("error", "UnknownError")

classify(p, f) == IF p \in Gemini THEN classifyGeminiError(f) ELSE classifyError(f)

Answered(text) == [status |-> "success", errorClass |-> "none", output |-> text]

(* executeBatch: the outcomes one call to provider p may come back with.    *)
executeBatch(p, failures) ==
  {Answered(text) : text \in Output} \cup {classify(p, f) : f \in failures}

Success(o) == o.status = "success"

(* Faulty variants of shouldRetryOnFallback: timeouts are forgotten; every   *)
(* failure is retried.                                                      *)
retryOnQuotaOnly(o) == o.status = "quota_exceeded"
retryOnAnyFailure(o) == ~Success(o)

(* shouldRetryOnFallback: the outcome is about this provider and this call, *)
(* not about the content of the batch.                                      *)
shouldRetryOnFallback(o) ==
  \/ o.status \in {"quota_exceeded", "timeout"}
  \/ o.status = "error" /\ o.errorClass = "APIConnectionError"
=============================================================================
