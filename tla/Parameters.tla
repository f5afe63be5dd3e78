----------------------------- MODULE Parameters -----------------------------
(***************************************************************************)
(* The parameters of a channel: the schema each type declares              *)
(* (paramSchema in internal/channel/*/config.go), the check against it     *)
(* (validate.go), the readers (params.go), the constructors, and how a     *)
(* form that is never shown a credential edits one (MaskSecrets and        *)
(* MergeEdit in internal/config/channels.go).  All of it is stateless.     *)
(*                                                                         *)
(* A configuration is a function from parameter names to values as YAML or *)
(* JSON gives them, each with its type; the readers see a whole number in  *)
(* the same way however it was written.                                    *)
(***************************************************************************)
EXTENDS Integers

CONSTANTS
  Periods,    \* texts that are durations greater than zero
  HttpsUrls,  \* texts that are usable https URLs
  HttpUrls,   \* and http ones
  Bundles,    \* paths of readable certificate bundles
  Folded      \* other spellings of a word, as ToLower and TrimSpace see them

Text(s)  == [is |-> "text", s |-> s]
Num(n)   == [is |-> "number", n |-> n]
Frac     == [is |-> "fraction"]       \* between two whole numbers, positive
Truth(b) == [is |-> "truth", b |-> b]
List     == [is |-> "list"]            \* of strings
Other    == [is |-> "other"]           \* a list of something else, or a map
Null     == [is |-> "null"]

Absent(cfg, p) == p \notin DOMAIN cfg \/ cfg[p] = Null

-----------------------------------------------------------------------------
(* ParamSpec.  A bound is a set of at most one number, and preset, the     *)
(* Default, of at most one value; when.field = "" is no ShowIf.            *)
Always == [field |-> "", equals |-> ""]
Spec(type) ==
  [type |-> type, required |-> FALSE, private |-> FALSE, preset |-> {},
   values |-> {}, low |-> {}, high |-> {}, when |-> Always]

Needed(s)     == [s EXCEPT !.required = TRUE]
Private(s)    == [s EXCEPT !.private = TRUE]
Preset(s, v)  == [s EXCEPT !.preset = {v}]
Only(s, f, v) == [s EXCEPT !.when = [field |-> f, equals |-> v]]
Enum(vs)      == [Spec("enum") EXCEPT !.values = vs]
Choice(vs, v) == Preset(Enum(vs), Text(v))
AtLeast(s, n) == [s EXCEPT !.low = {n}]
AtMost(s, n)  == [s EXCEPT !.high = {n}]

String  == Spec("string")
Timeout == Preset(Spec("duration"), Text("10s"))
Rate(v) == AtLeast(Preset(Spec("float"), v), 0)

EmailSchema ==
  [host |-> Needed(String), from |-> Needed(String),
   port |-> AtMost(AtLeast(Preset(Spec("int"), Num(587)), 1), 65535),
   tls |-> Enum({"implicit", "starttls", "none"}), require_tls |-> Spec("bool"),
   username |-> String, password |-> Private(String),
   auth_type |-> Choice({"auto", "plain", "login", "cram-md5"}, "auto"),
   to |-> Spec("string_list"), helo |-> String, timeout |-> Timeout,
   ca_file |-> String, subject_template |-> String]

(* httpauth.ParamSpecs is part of the schema of a webhook.                 *)
WebhookSchema ==
  [url |-> Needed(Private(String)), method |-> Choice({"POST", "PUT"}, "POST"),
   content_type |-> Preset(String, Text("json")), payload_template |-> String,
   timeout |-> Timeout, body_max_len |-> AtLeast(Preset(Spec("int"), Num(0)), 0),
   title_max_len |-> AtLeast(Preset(Spec("int"), Num(0)), 0),
   overflow_mode |-> Choice({"error", "truncate", "split"}, "error"),
   rate_per_sec |-> Rate(Num(0)), ca_file |-> String,
   auth_type |-> Choice({"none", "bearer", "basic", "header", "hmac"}, "none"),
   token |-> Only(Private(String), "auth_type", "bearer"),
   username |-> Only(String, "auth_type", "basic"),
   password |-> Only(Private(String), "auth_type", "basic"),
   header_name |-> Only(String, "auth_type", "header"),
   header_value |-> Only(Private(String), "auth_type", "header"),
   secret |-> Only(Private(String), "auth_type", "hmac"),
   signature_header |-> Only(Preset(String, Text("X-Signature")), "auth_type", "hmac"),
   signature_prefix |-> Only(Preset(String, Text("")), "auth_type", "hmac"),
   signature_base64 |-> Only(Spec("bool"), "auth_type", "hmac")]

WecomSchema ==
  [mode |-> Choice({"webhook", "app"}, "webhook"),
   webhook_url |-> Only(Private(String), "mode", "webhook"),
   corp_id |-> Only(String, "mode", "app"),
   corp_secret |-> Only(Private(String), "mode", "app"),
   agent_id |-> Only(Spec("int"), "mode", "app"),
   to_user |-> Only(Preset(String, Text("")), "mode", "app"),
   to_party |-> Only(Preset(String, Text("")), "mode", "app"),
   msg_type |-> Choice({"markdown", "text"}, "markdown"),
   timeout |-> Timeout, rate_per_sec |-> Rate(Frac), ca_file |-> String]

SlackSchema ==
  [webhook_url |-> Private(String), token |-> Private(String), channel |-> String,
   timeout |-> Timeout, rate_per_sec |-> Rate(Num(1)), ca_file |-> String]

DingtalkSchema ==
  [webhook_url |-> Needed(Private(String)), secret |-> Private(String),
   msg_type |-> Choice({"markdown", "text"}, "markdown"),
   at_mobiles |-> Spec("string_list"), at_all |-> Spec("bool"),
   timeout |-> Timeout, rate_per_sec |-> Rate(Frac), ca_file |-> String]

FeishuSchema ==
  [webhook_url |-> Needed(Private(String)), secret |-> Private(String),
   msg_type |-> Choice({"interactive", "text"}, "interactive"),
   timeout |-> Timeout, rate_per_sec |-> Rate(Frac), ca_file |-> String]

Schemas ==
  [email |-> EmailSchema, webhook |-> WebhookSchema, wecom |-> WecomSchema,
   slack |-> SlackSchema, dingtalk |-> DingtalkSchema, feishu |-> FeishuSchema]

(* What Register demands of a schema; it panics otherwise.                 *)
Types == {"string", "int", "bool", "enum", "string_list", "duration", "float"}
WellFormed(specs) ==
  \A p \in DOMAIN specs :
    LET s == specs[p] IN
    /\ s.type \in Types /\ s.type = "enum" => s.values # {}
    /\ \A m \in s.low, n \in s.high : m <= n
    /\ s.low \cup s.high # {} => s.type \in {"int", "float"}
    /\ s.when # Always => s.when.field \in DOMAIN specs \ {p} /\ s.when.equals # ""

-----------------------------------------------------------------------------
(* ValidateParams.                                                         *)

Within(s, n) == (\A m \in s.low : n >= m) /\ (\A m \in s.high : n <= m)

(* checkValue.  The bounds there are for floats are all zero, which a      *)
(* positive fraction meets.                                                *)
Checks(s, v) ==
  CASE s.type = "string"      -> v.is = "text"
    [] s.type = "int"         -> v.is = "number" /\ Within(s, v.n)
    [] s.type = "bool"        -> v.is = "truth"
    [] s.type = "enum"        -> v.is = "text" /\ v.s \in s.values
    [] s.type = "duration"    -> v.is = "text" /\ v.s \in Periods
    [] s.type = "float"       -> v.is = "fraction" \/ (v.is = "number" /\ Within(s, v.n))
    [] s.type = "string_list" -> v.is \in {"text", "list"}

(* The parameters something is wrong with, all at once.                    *)
Faulty(specs, cfg) ==
  (DOMAIN cfg \ DOMAIN specs) \cup
  {p \in DOMAIN specs :
     IF Absent(cfg, p) THEN specs[p].required ELSE ~Checks(specs[p], cfg[p])}

Validates(kind, cfg) == Faulty(Schemas[kind], cfg) = {}

-----------------------------------------------------------------------------
(* The readers: whether they read the value, and what.                     *)

ReadsText(cfg, p)   == Absent(cfg, p) \/ cfg[p].is = "text"
ReadsTruth(cfg, p)  == Absent(cfg, p) \/ cfg[p].is = "truth"
ReadsList(cfg, p)   == Absent(cfg, p) \/ cfg[p].is \in {"text", "list"}
ReadsPeriod(cfg, p) == Absent(cfg, p) \/ (cfg[p].is = "text" /\ cfg[p].s \in Periods)
ReadsInt(specs, cfg, p) ==
  Absent(cfg, p) \/ (cfg[p].is = "number" /\ Within(specs[p], cfg[p].n))
ReadsFloat(specs, cfg, p) == ReadsInt(specs, cfg, p) \/ cfg[p] = Frac

TextOr(cfg, p, otherwise) == IF Absent(cfg, p) THEN otherwise ELSE cfg[p].s
TruthOr(cfg, p, otherwise) == IF Absent(cfg, p) THEN otherwise ELSE cfg[p].b
NumOr(cfg, p, otherwise) == IF Absent(cfg, p) THEN otherwise ELSE cfg[p].n
HasText(cfg, p) == ~Absent(cfg, p) /\ cfg[p].is = "text" /\ cfg[p].s # ""

(* A word in any spelling.                                                 *)
Fold(w) == IF w \in DOMAIN Folded THEN Folded[w] ELSE w
Word(cfg, p, otherwise) == Fold(TextOr(cfg, p, otherwise))

ReadsTexts(cfg, ps) == \A p \in ps : ReadsText(cfg, p)

-----------------------------------------------------------------------------
(* The constructors: parseConfig, and the client with its trusted roots.   *)

Trusts(cfg) == ReadsText(cfg, "ca_file") /\ TextOr(cfg, "ca_file", "") \in Bundles \cup {""}

(* Five types end with the same three parameters.                          *)
Connects(specs, cfg) ==
  ReadsPeriod(cfg, "timeout") /\ ReadsFloat(specs, cfg, "rate_per_sec") /\ Trusts(cfg)

(* Both halves of a sign-in, or neither.                                   *)
SignsIn(cfg) ==
  /\ ReadsTexts(cfg, {"username", "password"})
  /\ (TextOr(cfg, "username", "") = "") = (TextOr(cfg, "password", "") = "")

(* parseTLS: the mode follows the port, and TLS cannot be required of a    *)
(* connection in the clear.                                                *)
TlsMode(cfg) ==
  IF TextOr(cfg, "tls", "") = ""
    THEN IF NumOr(cfg, "port", 587) = 465 THEN "implicit" ELSE "starttls"
    ELSE Word(cfg, "tls", "")
Encrypts(cfg) ==
  /\ ReadsText(cfg, "tls") /\ TlsMode(cfg) \in {"implicit", "starttls", "none"}
  /\ ReadsTruth(cfg, "require_tls")
  /\ ~(TlsMode(cfg) = "none" /\ TruthOr(cfg, "require_tls", FALSE))

Email(specs, cfg) ==
  /\ HasText(cfg, "host") /\ ReadsInt(specs, cfg, "port") /\ HasText(cfg, "from")
  /\ ReadsList(cfg, "to") /\ Encrypts(cfg) /\ SignsIn(cfg)
  /\ ReadsText(cfg, "auth_type")
  /\ Word(cfg, "auth_type", "auto") \in {"auto", "plain", "login", "cram-md5"}
  /\ ReadsTexts(cfg, {"helo", "subject_template"}) /\ Trusts(cfg)
  /\ ReadsPeriod(cfg, "timeout")

(* FromParams: what each way of authenticating cannot do without.          *)
Essential ==
  [none |-> {}, bearer |-> {"token"}, basic |-> {"username"},
   header |-> {"header_name", "header_value"}, hmac |-> {"secret"}]
Authenticates(cfg) ==
  /\ ReadsTexts(cfg, {"auth_type", "token", "username", "password", "header_name",
                      "header_value", "secret", "signature_header", "signature_prefix"})
  /\ ReadsTruth(cfg, "signature_base64")
  /\ \/ Word(cfg, "auth_type", "none") = ""
     \/ /\ Word(cfg, "auth_type", "none") \in DOMAIN Essential
        /\ \A p \in Essential[Word(cfg, "auth_type", "none")] : HasText(cfg, p)

Webhook(specs, cfg) ==
  /\ HasText(cfg, "url") /\ cfg["url"].s \in HttpsUrls \cup HttpUrls
  /\ ReadsText(cfg, "method") /\ Word(cfg, "method", "POST") \in {"POST", "PUT"}
  /\ ReadsTexts(cfg, {"content_type", "payload_template"})
  /\ ReadsInt(specs, cfg, "body_max_len") /\ ReadsInt(specs, cfg, "title_max_len")
  /\ ReadsText(cfg, "overflow_mode")
  /\ Word(cfg, "overflow_mode", "error") \in {"error", "truncate", "split"}
  /\ Connects(specs, cfg) /\ Authenticates(cfg)

Robot(cfg) == HasText(cfg, "webhook_url") /\ cfg["webhook_url"].s \in HttpsUrls

(* The number of the agent has no bound in the schema: it is needed in one *)
(* mode only.                                                              *)
App(specs, cfg) ==
  /\ HasText(cfg, "corp_id") /\ HasText(cfg, "corp_secret")
  /\ ReadsInt(specs, cfg, "agent_id") /\ NumOr(cfg, "agent_id", 0) > 0
  /\ ReadsTexts(cfg, {"to_user", "to_party"})
  /\ HasText(cfg, "to_user") \/ HasText(cfg, "to_party")

Wecom(specs, cfg) ==
  /\ ReadsTexts(cfg, {"mode", "msg_type"})
  /\ Word(cfg, "msg_type", "markdown") \in {"markdown", "text"}
  /\ \/ Word(cfg, "mode", "webhook") = "webhook" /\ Robot(cfg)
     \/ Word(cfg, "mode", "webhook") = "app" /\ App(specs, cfg)
  /\ Connects(specs, cfg)

(* One mode exactly.                                                       *)
Slack(specs, cfg) ==
  /\ ReadsTexts(cfg, {"webhook_url", "token", "channel"})
  /\ \/ Robot(cfg) /\ ~HasText(cfg, "token")
     \/ ~HasText(cfg, "webhook_url") /\ HasText(cfg, "token") /\ HasText(cfg, "channel")
  /\ Connects(specs, cfg)

Dingtalk(specs, cfg) ==
  /\ Robot(cfg) /\ ReadsTexts(cfg, {"secret", "msg_type"})
  /\ Word(cfg, "msg_type", "markdown") \in {"markdown", "text"}
  /\ ReadsList(cfg, "at_mobiles") /\ ReadsTruth(cfg, "at_all") /\ Connects(specs, cfg)

Feishu(specs, cfg) ==
  /\ Robot(cfg) /\ ReadsTexts(cfg, {"secret", "msg_type"})
  /\ Word(cfg, "msg_type", "interactive") \in {"interactive", "text"}
  /\ Connects(specs, cfg)

Constructs(kind, cfg) ==
  CASE kind = "email"    -> Email(EmailSchema, cfg)
    [] kind = "webhook"  -> Webhook(WebhookSchema, cfg)
    [] kind = "wecom"    -> Wecom(WecomSchema, cfg)
    [] kind = "slack"    -> Slack(SlackSchema, cfg)
    [] kind = "dingtalk" -> Dingtalk(DingtalkSchema, cfg)
    [] kind = "feishu"   -> Feishu(FeishuSchema, cfg)

(* validateChannel, before a row is written, and buildSet, when a set is   *)
(* built: the same two checks, in one order and in the other.              *)
Starts(kind, cfg) == kind \in DOMAIN Schemas /\ Validates(kind, cfg) /\ Constructs(kind, cfg)

-----------------------------------------------------------------------------
(* The form, which is built from the schema and a masked configuration     *)
(* (buildField), filled in by an operator, and read back (collect in       *)
(* web/src/lib/schema.ts).  Its values are what its controls hold.         *)

Secret(specs) == {p \in DOMAIN specs : specs[p].private}

(* MaskSecrets: what a form is shown, and which credentials it is told are *)
(* set.                                                                    *)
Masked(specs, cfg) == [p \in DOMAIN cfg \ Secret(specs) |-> cfg[p]]
Set(specs, cfg) == {p \in Secret(specs) \cap DOMAIN cfg : HasText(cfg, p)}

Blank == Text("")

(* A checkbox has no third state, and a credential is not shown.           *)
Initial(s, cfg, p) ==
  CASE s.private            -> Blank
    [] s.type = "bool"      -> Truth(~Absent(cfg, p) /\ cfg[p] = Truth(TRUE))
    [] s.type = "string_list" -> IF ReadsList(cfg, p) /\ ~Absent(cfg, p) THEN List ELSE Blank
    [] OTHER                -> IF ~Absent(cfg, p) THEN cfg[p]
                               ELSE IF s.preset # {} THEN CHOOSE v \in s.preset : TRUE
                               ELSE Blank
Opened(specs, cfg) == [p \in DOMAIN specs |-> Initial(specs[p], Masked(specs, cfg), p)]

Applies(s, values) == s.when = Always \/ values[s.when.field] = Text(s.when.equals)

(* requiredWhenShown: a condition makes required what has no default.      *)
Marked(s) == s.required \/ (s.when # Always /\ s.preset = {} /\ s.type # "bool")

(* A field that does not apply, or is blank, is not sent; a box always is. *)
Collected(specs, values, clears) ==
  LET cleared(p) == specs[p].private /\ p \in clears
      sent == {p \in DOMAIN specs :
                 Applies(specs[p], values) /\ (cleared(p) \/ values[p] # Blank)}
  IN [p \in sent |-> IF cleared(p) THEN Blank ELSE values[p]]

(* MergeEdit: what is absent from the form is kept, what is empty is       *)
(* cleared.  The schema is the one of the type the form names.             *)
Kept(specs, form, stored) == (Secret(specs) \cap DOMAIN stored) \ DOMAIN form
Merged(specs, form, stored) ==
  [p \in DOMAIN form \cup Kept(specs, form, stored) |->
     IF p \in DOMAIN form THEN form[p] ELSE stored[p]]

(* A form that is opened and saved with nothing touched.                   *)
Resaved(specs, cfg) == Merged(specs, Collected(specs, Opened(specs, cfg), {}), cfg)

(* The value a channel works with: its own default is the schema's, but    *)
(* for one that depends on another parameter.                              *)
InEffect(specs, cfg, p) ==
  CASE ~Absent(cfg, p) -> IF specs[p].type = "string_list" THEN List ELSE cfg[p]
    [] p = "require_tls" -> Truth(TlsMode(cfg) # "none")
    [] specs[p].preset # {} -> CHOOSE v \in specs[p].preset : TRUE
    [] specs[p].type = "bool" -> Truth(FALSE)
    [] OTHER -> Blank

(* SecretValues: what is struck out of every outcome.                      *)
SecretValues(specs, cfg) == {cfg[p].s : p \in Set(specs, cfg)}
=============================================================================
