-------------------------- MODULE MCHttpExchange ---------------------------
(* An instance of HttpExchange: requests for a page, for the settings and  *)
(* for nothing there is, with a body, with what follows a body, with an    *)
(* interim response, and one that begins with an empty line.               *)
EXTENDS HttpExchange

Get(url) == [method |-> "GET", url |-> url, login |-> TRUE, blank |-> FALSE,
             expect |-> FALSE, body |-> 0, extra |-> 0]

SomeRequests ==
  {Get("/"), Get("/main"), [Get("/nowhere") EXCEPT !.extra = 1], [Get("/") EXCEPT !.login = FALSE],
   [Get("/main") EXCEPT !.body = 2, !.expect = TRUE], [Get("/main") EXCEPT !.method = "POST", !.body = 2, !.extra = 1],
   [Get("/main") EXCEPT !.blank = TRUE]}

=============================================================================
