------------------------------- MODULE MCCORS -------------------------------
(* Two pages, deployments that list one, both or any, with and without credentials. *)
EXTENDS CORS

Page(n) == [name |-> n, case |-> "lower"]
Config(origins, methods, headers, credentials, maxAge) ==
  [origins |-> origins, methods |-> methods, headers |-> headers, exposed |-> {},
   credentials |-> credentials, maxAge |-> maxAge]

\* Only the frame options and the server header are removed or set; no HSTS.
Framed == [hsts |-> 0, set |-> {"X-Frame-Options"}, RemoveServerHeader |-> TRUE, RemovePoweredBy |-> FALSE]

MCConfigs ==
  {[cors |-> Config({[name |-> "app", case |-> "mixed"]}, {}, {"Authorization"}, TRUE, 1500),
    secure |-> Strict, guarded |-> FALSE],
   [cors |-> Config({Page("app"), Page("other")}, {"GET", "DELETE"}, {"Authorization"}, FALSE, 0),
    secure |-> Framed, guarded |-> TRUE],
   [cors |-> AllowAll, secure |-> Framed, guarded |-> FALSE],
   [cors |-> Config({Page("other")}, {"DELETE"}, {}, TRUE, 500), secure |-> Strict, guarded |-> FALSE]}

Ask3(origin, cred) ==
  {[origin |-> Page(origin), method |-> "GET", headers |-> {}, cred |-> cred],
   [origin |-> Page(origin), method |-> "GET", headers |-> {"Authorization"}, cred |-> cred],
   [origin |-> Page(origin), method |-> "DELETE", headers |-> {}, cred |-> cred]}
\* The site's own pages, and cross-origin ones with and without cookies.
MCRequests == Ask3("", FALSE) \cup UNION {Ask3(o, c) : o \in {"app", "other"}, c \in BOOLEAN}

MCOuterHeaders == {{"Server", "X-Frame-Options"}}
MCHandlerHeaders == {{}, {"X-Frame-Options"}}
=============================================================================
