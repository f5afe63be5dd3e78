---------------------------- MODULE ConfigChecks ----------------------------
(***************************************************************************)
(* What ConfigFile and Parameters say of bounded documents, forms and      *)
(* channels: TLC evaluates the assumptions of this module in every run of  *)
(* a module that extends it.                                               *)
(***************************************************************************)
EXTENDS Integers

F == INSTANCE ConfigFile
P == INSTANCE Parameters WITH
       Periods <- {"10s"}, HttpsUrls <- {"https"}, HttpUrls <- {"http"},
       Bundles <- {"pem"}, Folded <- [NONE |-> "none", App |-> "app", Basic |-> "basic"]

-----------------------------------------------------------------------------
(* Documents.                                                              *)

Smallest == [F!Default EXCEPT !.server.addr = ":8080"]

(* The address is all that a file has to say.                              *)
ASSUME AnAddressIsEnough == ~F!Accepted(F!Default) /\ F!Accepted(Smallest)

(* A variable that is set to nothing is a value, and is validated as one;  *)
(* one that is not set is never taken for it.                              *)
ASSUME VariablesAreValues ==
  LET doc == [server |-> [addr |-> "unread"]]
      refs == [p \in {<<"server", "addr">>} |-> "ADDR"]
  IN /\ F!Loads(doc, refs, [ADDR |-> ":1"])
     /\ F!Expands(refs, [ADDR |-> ""]) /\ ~F!Loads(doc, refs, [ADDR |-> ""])
     /\ ~F!Expands(refs, [OTHER |-> ":1"])

Documents ==
  {[Smallest EXCEPT !.queue.workers = w, !.queue.claimTimeout = c,
                    !.queue.deliverTimeout = d, !.queue.recoverEvery = r,
                    !.queue.pruneEvery = p, !.retry.maxAttempts = m,
                    !.retry.maxAge = a, !.retry.backoff = b] :
     w \in 0..1, c \in 0..3, d \in 0..3, r \in 0..3, p \in 0..1, m \in 0..2,
     a \in 0..1, b \in {<<>>, <<1, 2>>}}

(* What is accepted is what runs: no component replaces a setting by its   *)
(* own default, except a back-off of no rungs.                             *)
ASSUME AcceptedIsInEffect ==
  \A c \in Documents : F!Accepted(c) =>
    /\ F!Options(c.queue) = c.queue
    /\ c.retry.backoff # <<>> => F!Policy(c.retry) = c.retry

(* The thresholds of a breaker are not validated; it never has one below 1.*)
ASSUME ThresholdsArePositive ==
  \A b \in [DOMAIN F!Default.breaker -> -1..1] :
    \A f \in DOMAIN F!Thresholds(b) : F!Thresholds(b)[f] > 0

(* And what is accepted satisfies what the model of the queue assumes: a   *)
(* claim outlasts one delivery.  It need not outlast a batch, and with the *)
(* defaults it does not.                                                   *)
ASSUME ClaimsOutlastDeliveries ==
  /\ \A c \in Documents : F!Accepted(c) => c.queue.claimTimeout > c.queue.deliverTimeout
  /\ F!Default.queue.batch * F!Default.queue.deliverTimeout > F!Default.queue.claimTimeout

(* A change of one setting is in effect after SIGHUP, or is reported as    *)
(* waiting for a restart; these are neither.                               *)
Unnoticed ==
  {<<"timeouts", "read">>, <<"timeouts", "readHeader">>, <<"timeouts", "write">>,
   <<"timeouts", "idle">>, <<"log", "format">>, <<"queue", "deliverTimeout">>,
   <<"breaker", "enabled">>, <<"channels", "seed">>}
ASSUME ChangesAreNoticed ==
  LET before == [s \in DOMAIN F!Default |-> [f \in DOMAIN F!Default[s] |-> "before"]]
      after(p) == [before EXCEPT ![p[1]][p[2]] = "after"]
  IN {p \in F!Paths : F!Silent(F!Default, before, after(p)) # {}} = Unnoticed

-----------------------------------------------------------------------------
(* Configurations.  Null stands for a parameter that is left out.                *)

Without(r) == [p \in {q \in DOMAIN r : r[q] # P!Null} |-> r[p]]
T(s) == P!Text(s)
Texts(ss) == {P!Null} \cup {T(s) : s \in ss}
Numbers(ns) == {P!Null, P!Frac} \cup {P!Num(n) : n \in ns}
Truths == {P!Null, P!Truth(TRUE), P!Truth(FALSE)}
Lists == {P!Null, P!List, P!Other, T("a")}

Configurations ==
  [email |-> {Without(r) : r \in
     [host : {T("h")}, from : {T("f")}, port : Numbers({0, 25, 465}),
      tls : Texts({"implicit", "none", "NONE"}), require_tls : Truths,
      username : Texts({"", "u"}), password : Texts({"", "s"}), to : Lists,
      timeout : Texts({"10s", "soon"}), ca_file : Texts({"pem", "gone"})]},
   webhook |-> {Without(r) : r \in
     [url : Texts({"https", "http", "x"}), content_type : Texts({""}),
      auth_type : Texts({"", "none", "bearer", "basic", "Basic", "header", "hmac"}),
      token : Texts({"s"}), username : Texts({"u"}), password : Texts({"s"}),
      header_name : Texts({"h"}), header_value : Texts({"s"}), secret : Texts({"s"}),
      body_max_len : Numbers({0})]},
   wecom |-> {Without(r) : r \in
     [mode : Texts({"webhook", "app", "App"}), webhook_url : Texts({"", "https", "http"}),
      corp_id : Texts({"c"}), corp_secret : Texts({"s"}), agent_id : Numbers({0, 1}),
      to_user : Texts({"", "u"}), to_party : Texts({"", "p"})]},
   slack |-> {Without(r) : r \in
     [webhook_url : Texts({"", "https", "http"}), token : Texts({"", "s"}),
      channel : Texts({"c"}), rate_per_sec : Numbers({0, 1})]},
   dingtalk |-> {Without(r) : r \in
     [webhook_url : Texts({"", "https", "http"}), secret : Texts({"s"}),
      msg_type : Texts({"text", "interactive"}), at_mobiles : Lists, at_all : Truths]},
   feishu |-> {Without(r) : r \in
     [webhook_url : Texts({"", "https", "http"}), secret : Texts({"s"}),
      msg_type : Texts({"text", "markdown"}), rate_per_sec : Numbers({0, 1})]}]

Drivers == DOMAIN P!Schemas
Every(Holds(_, _, _)) ==
  \A k \in Drivers : \A c \in Configurations[k] : Holds(k, P!Schemas[k], c)

(* No shipped type panics when it registers its schema.                    *)
ASSUME SchemasAreSound == \A k \in Drivers : P!WellFormed(P!Schemas[k])

(* The schema is no looser than the constructor about a number, a duration *)
(* or a needed parameter: what the constructor takes and the schema does   *)
(* not is a word in another spelling, or a parameter of another mode.      *)
ASSUME ConstructorsKeepTheSchema ==
  LET elsewhere(specs, c, s) ==
        /\ s.when # P!Always
        /\ P!Fold(P!InEffect(specs, c, s.when.field).s) # s.when.equals
      holds(k, specs, c) ==
        P!Constructs(k, c) =>
          \A p \in P!Faulty(specs, c) :
            \/ specs[p].type = "enum" /\ P!Fold(c[p].s) \in specs[p].values \cup {""}
            \/ elsewhere(specs, c, specs[p])
  IN Every(holds)

(* The form marks what FromParams demands, "so the two disagreeing is what *)
(* an operator would experience" (httpauth.go:139); they do over a         *)
(* password, which a basic sign-in may leave empty.                        *)
ASSUME FormsAskForCredentials ==
  LET specs == P!WebhookSchema
      typed(c) == [p \in DOMAIN specs |-> IF P!Absent(c, p) THEN P!Initial(specs[p], c, p) ELSE c[p]]
      filled(c) == \A p \in DOMAIN specs \ {"url"} :
                     P!Marked(specs[p]) /\ P!Applies(specs[p], typed(c)) => typed(c)[p] # P!Blank
      open(c) == P!Word(c, "auth_type", "none") = "basic" /\ ~P!HasText(c, "password")
  IN \A c \in Configurations.webhook : P!Validates("webhook", c) =>
       /\ filled(c) => P!Authenticates(c)
       /\ P!Authenticates(c) => filled(c) \/ open(c)

(* A form that is opened and saved untouched saves a channel that starts,  *)
(* keeps every credential and works as before, but for two parameters: a   *)
(* box cannot leave require_tls to follow the TLS mode, and an empty       *)
(* content type cannot be told from none.                                  *)
ASSUME UntouchedFormsChangeNothing ==
  LET loses(c, p) == \/ p = "require_tls" /\ P!Absent(c, p) /\ P!TlsMode(c) # "none"
                     \/ p = "content_type" /\ ~P!Absent(c, p) /\ c[p] = P!Blank
      holds(k, specs, c) ==
        P!Starts(k, c) =>
          LET again == P!Resaved(specs, c) IN
          /\ P!Starts(k, again)
          /\ \A p \in P!Secret(specs) \cap DOMAIN c : again[p] = c[p]
          /\ \A p \in DOMAIN specs :
               P!Applies(specs[p], P!Opened(specs, c)) =>
                 (P!InEffect(specs, again, p) = P!InEffect(specs, c, p)) = ~loses(c, p)
  IN Every(holds)
=============================================================================
