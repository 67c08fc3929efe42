----------------------------- MODULE SoapDevice -----------------------------
(***************************************************************************)
(* The SOAP side of a device (soap/soap_device.c): an action or the query  *)
(* of a variable arrives as a POST, the service and the application's      *)
(* callback are looked up under the handle lock, the callback runs without *)
(* it and what it left in its record decides the answer.                   *)
(***************************************************************************)
EXTENDS WebServer

CONSTANTS
  Services,        \* control path |-> type of the service
  Verdicts         \* what the application may make of a request

VARIABLE deviceRegistered

QUERY_STATE_VAR_URN == "urn:control"

SOAP_INVALID_ACTION == 401
SOAP_INVALID_VAR == 404
SOAP_ACTION_FAILED == 501

Failure(error) == [ok |-> FALSE, error |-> error]
Good == [ok |-> TRUE, error |-> 0]

\* get_request_type: the header that names the action; SOAPACTION for a POST, and for an
\* M-POST the one with the prefix that MAN defines.  It has to hold a "#" and a name.
get_request_type(req) ==
  IF (req.method = "M-POST" /\ ~req.man) \/ req.header.kind # "urn#name" THEN "none"
  ELSE IF req.header.name = "QueryStateVariable" THEN "query" ELSE "action"

\* check_soap_action_header: the service type in front of the name, without its version.
\* Only SOAPACTION itself is looked for, so that an M-POST has none.
check_soap_action_header(req, urn) ==
  req.method = "SOAP_POST" /\ req.header.urn = urn

\* check_soap_body: the first child of the body is the action that the header names.
check_soap_body(req, urn) == req.body.urn = urn /\ req.body.name = req.header.name

\* get_device_info: the first registered device only.  0, or the error.
UPNP_E_INVALID_ACTION == -115
UPNP_E_INVALID_SERVICE == -111

get_device_info(req, isQuery) ==
  CASE ~deviceRegistered -> -1
    [] deviceRegistered /\ req.path \notin DOMAIN Services -> -1
    [] OTHER ->
         LET urn == IF isQuery THEN QUERY_STATE_VAR_URN ELSE Services[req.path]
         IN IF check_soap_action_header(req, urn) /\ check_soap_body(req, urn) THEN 0
            ELSE IF isQuery THEN UPNP_E_INVALID_ACTION ELSE UPNP_E_INVALID_SERVICE

\* get_var_name takes the first child of the envelope for the body.
get_var_name(req) == req.body.shape = "plain" /\ req.body.name = "QueryStateVariable"

\* get_action_node finds the body also behind a header; the name only has to contain the
\* action's.
get_action_node(req) == req.body.shape \in {"plain", "withHeader"} /\ req.body.name = req.header.name

ActionAnswerIgnoresError(v) ==      \* mutant: a result hides the error
  IF v.result THEN Good ELSE Failure(SOAP_ACTION_FAILED)

\* The answer to what the callback left in the record of an action ...
ActionAnswer(v) ==
  CASE v.ErrCode # 0 /\ v.ErrStr -> Failure(v.ErrCode)
    [] v.ErrCode # 0 /\ ~v.ErrStr -> Failure(SOAP_ACTION_FAILED)
    [] v.ErrCode = 0 /\ ~v.result -> Failure(SOAP_ACTION_FAILED)
    [] OTHER -> Good

\* ... and of a variable, where a text makes the code a general one.
QueryAnswer(v) ==
  CASE ~v.result -> Failure(SOAP_INVALID_VAR)
    [] v.result /\ v.ErrCode # 0 -> Failure(IF v.ErrStr THEN SOAP_INVALID_VAR ELSE v.ErrCode)
    [] OTHER -> Good

(***************************************************************************)
(* soap_device_callback.                                                   *)
(***************************************************************************)
SoapHead(answer) ==
  ResponseHead(IF answer.ok THEN 200 ELSE 500, 1, FALSE, NoRange)

SoapVars == <<cfgVars, aliasVars, appVars, crashed, deviceRegistered>>

Answers(c, answer) ==
  \E ok \in BOOLEAN :
    Moves(c, [Answered(conn[c], SoapHead(answer), ok) EXCEPT !.pc = "close", !.error = answer.error])

\* Everything up to the look-up, which is done under the handle lock.
SoapFinds(c) ==
  LET req == conn[c].req
      type == get_request_type(req)
      query == type = "query"
      found == get_device_info(req, query)
  IN /\ AtStart(c, "soap") /\ app # "publish"
     /\ CASE ~req.xml \/ type = "none" -> Answers(c, Failure(SOAP_INVALID_ACTION))
          [] req.xml /\ type # "none" /\ req.body.shape = "notXml" -> Answers(c, Failure(SOAP_ACTION_FAILED))
          [] req.xml /\ req.body.shape # "notXml" /\ query /\ (~get_var_name(req) \/ found # 0) ->
               Answers(c, Failure(SOAP_INVALID_VAR))
          [] req.xml /\ req.body.shape # "notXml" /\ type = "action" /\ ~get_action_node(req) ->
               Answers(c, Failure(SOAP_INVALID_ACTION))
          [] req.xml /\ req.body.shape # "notXml" /\ type = "action" /\ get_action_node(req) /\ found # 0 ->
               Answers(c, Failure(found))
          [] OTHER -> Moves(c, [conn[c] EXCEPT !.pc = "soapCall", !.source = type])
     /\ UNCHANGED SoapVars

\* The application's callback; the device may be unregistered by now.
SoapCallback(c) ==
  /\ AtStart(c, "soapCall")
  /\ \E v \in Verdicts :
       Moves(c, [conn[c] EXCEPT !.pc = "soapAnswer", !.asked = @ + 1, !.verdict = v])
  /\ UNCHANGED SoapVars

SoapAnswers(c) ==
  /\ AtStart(c, "soapAnswer")
  /\ Answers(c, IF conn[c].source = "query" THEN QueryAnswer(conn[c].verdict)
                ELSE ActionAnswer(conn[c].verdict))
  /\ UNCHANGED SoapVars

SoapStep(c) == SoapFinds(c) \/ SoapCallback(c) \/ SoapAnswers(c)
=============================================================================
