------------------------------- MODULE Server -------------------------------
(***************************************************************************)
(* `a2acode serve` (cli.py), which checks its options and builds the       *)
(* backend, the signer and the application (backends/__init__.py, card.py, *)
(* server.py) in one synchronous run, and the middleware that decides      *)
(* about every request from then on (auth.py).                             *)
(***************************************************************************)
EXTENDS PythonNone, Sequences

CONSTANTS
  CommandLines, \* BOUND: the options serve() may be called with; None stands
                \* for one that is absent, or empty except for the mode: an
                \* empty --permission-mode is an unknown one
  Requests      \* BOUND: what the server may be sent

\* a request carries a sequence of credentials
ASSUME ServerAssumption ==
  \A q \in Requests : q.auth \in Seq({q.auth[i] : i \in DOMAIN q.auth})

VARIABLE up     \* the server: its options, its card and its signatures, the
                \* token of its middleware

Down == [at |-> "down", opts |-> None, card |-> None, signatures |-> {}, token |-> None]

ServerInit == up = Down

-----------------------------------------------------------------------------
(* Options.  A file is "unusable" if it cannot be read, is blank or (a key) *)
(* does not sign a throwaway card; so is a command that does not split.    *)

Presets == [claude |-> "Claude Code", gemini |-> "Gemini CLI", codex |-> "Codex"]

\* _validate_permission_mode(), asked for by the claude backend only
InvalidMode(o) == o.backend = "claude" /\ o.mode = "unknown"

\* make_backend() and the constructor of ACPBackend
NoBackend(o) == \/ o.backend \notin {"acp", "claude", "echo"}
                \/ /\ o.backend = "acp"
                   /\ \/ o.command = "unusable"
                      \/ o.command = None /\ o.agent \notin DOMAIN Presets

\* mutant: a key without an id, or an id without a key, is taken for neither
NoSigner_Lenient(o) == o.key = "unusable"

NoSigner(o) == \/ (o.kid = None) # (o.key = None)
               \/ o.key = "unusable"

Refused(o) == InvalidMode(o) \/ NoBackend(o) \/ NoSigner(o) \/ o.token = "unusable"

\* an arbitrary command is not advertised under a preset's name
CardName(o) == IF o.backend # "acp" THEN "Claude Code"
               ELSE IF o.command # None THEN "Coding Agent" ELSE Presets[o.agent]

\* what the backend drives
Driven(o) == IF o.backend # "acp" THEN o.backend
             ELSE IF o.command # None THEN o.command ELSE o.agent

-----------------------------------------------------------------------------
(* The card and the application.                                           *)

BuildCard(o, auth) == [name |-> CardName(o), auth |-> auth]

\* the signature covers the card without its signatures
Sign(card, kid) == [kid |-> kid, over |-> card]

\* mutants: the card is signed before the requirement is added; the
\* requirement is not added
BuildApp_SignsFirst(o) ==
  [at |-> "up", opts |-> o, card |-> BuildCard(o, o.token # None), token |-> o.token,
   signatures |-> IF o.key = None THEN {} ELSE {Sign(BuildCard(o, FALSE), o.kid)}]
BuildApp_Silent(o) ==
  LET card == BuildCard(o, FALSE)
  IN  [at |-> "up", opts |-> o, card |-> card, token |-> o.token,
       signatures |-> IF o.key = None THEN {} ELSE {Sign(card, o.kid)}]

BuildApp(o) ==
  LET card == BuildCard(o, o.token # None)
  IN  [at |-> "up", opts |-> o, card |-> card, token |-> o.token,
       signatures |-> IF o.key = None THEN {} ELSE {Sign(card, o.kid)}]

Serve == /\ up.at = "down"
         /\ \E o \in CommandLines :
              up' = IF Refused(o) THEN [Down EXCEPT !.at = "refused", !.opts = o]
                                  ELSE BuildApp(o)

-----------------------------------------------------------------------------
(* BearerAuthMiddleware.  The authorization headers of a request are the   *)
(* sequence of their credentials; the first one counts.                    *)

Bearer(t) == [scheme |-> "bearer", token |-> t]

\* mutant: the scheme is not looked at
Authorized_AnyScheme(q) == q.auth # << >> /\ Head(q.auth).token = up.token

Authorized(q) == q.auth # << >> /\ Head(q.auth) = Bearer(up.token)

Passes(q) == \/ up.token = None
             \/ q.type # "http" \/ q.public
             \/ Authorized(q)

-----------------------------------------------------------------------------
(* A caller may go by the card: where it requires no authentication, every *)
(* request reaches the application; where it does, one whose credentials   *)
(* are all the configured token does, and one that bears it nowhere does   *)
(* not, except to fetch the card (auth.py:9-11, server.py:52, 83-87).      *)
CardTellsAccess ==
  up.at = "up" =>
    \A q \in Requests : q.type = "http" /\ ~q.public =>
      LET right == {i \in DOMAIN q.auth : q.auth[i] = Bearer(up.opts.token)}
      IN  /\ Passes(q) => ~up.card.auth \/ right # {}
          /\ ~up.card.auth \/ (q.auth # << >> /\ right = DOMAIN q.auth) => Passes(q)

(* What the card says is so: it carries the name of a preset agent only if *)
(* that agent is what is driven (cli.py:131-135; echo passes for Claude    *)
(* Code), and its signature covers the card that is served, with the       *)
(* authentication requirement in it (card.py:149-150, server.py:46-55).    *)
CardIsHonest ==
  up.at = "up" =>
    /\ \A a \in DOMAIN Presets :
         up.card.name = Presets[a] /\ up.opts.backend # "echo" => Driven(up.opts) = a
    /\ \A s \in up.signatures : s.over = up.card

(* An option is carried out or the server does not come up: a key or a key *)
(* id gives a card signed under that id, a token file a card that requires *)
(* it (cli.py:147-167).                                                    *)
OptionsHonoured ==
  up.at = "up" =>
    /\ up.opts.key # None \/ up.opts.kid # None =>
         up.opts.kid # None /\ \E s \in up.signatures : s.kid = up.opts.kid
    /\ up.opts.token # None => up.card.auth /\ up.token = up.opts.token
=============================================================================
