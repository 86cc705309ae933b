----------------------------- MODULE ApiServer -----------------------------
(***************************************************************************)
(* A GamifyKit process from its configuration to its exit: BuildApp and    *)
(* main of cmd/gamifykit-server, the middleware and routes of NewMux, and  *)
(* the requests of SDK clients.  The server's binary loads its             *)
(* configuration from the environment; a program of one's own may also     *)
(* take a file or a profile.                                               *)
(***************************************************************************)
EXTENDS ServerConfig

CONSTANTS
  Clients,      \* SDK clients, one call at a time each
  Kinds,        \* what a request asks for
  MaxClock,     \* bound: ticks of the clock
  MaxRequests   \* bound: requests

VARIABLES
  phase,        \* "start", "loaded", "built", "serving", "draining", "exited"
  source,       \* where the configuration is from
  cfg,          \* the configuration
  world,        \* environment, file, secrets, services that are up, free port
  mux,          \* the middleware around the routes
  asked,        \* history: the protection the configuration asked for
  notified,     \* main has asked for signals
  quit,         \* a signal waits in main's channel
  code,         \* how the process ended
  call,         \* per client: its request and what became of it
  requests      \* bound: requests made

mainVars == <<phase, source, cfg, world, mux, asked, notified, quit, code>>
vars     == <<limiterVars, mainVars, call, requests>>

NotAsked == [pc |-> "free", kind |-> "none", key |-> "none", at |-> 0, counted |-> FALSE,
             status |-> "none", applied |-> FALSE]

Init ==
  /\ LimiterInit
  /\ phase = "start"
  /\ source \in {"env", "file"} \cup Profiles
  /\ cfg = DefaultConfig
  /\ world \in [env : EnvChoices, file : FileChoices,
                secrets : SUBSET {"dsn"}, up : {{}, {"redis", "sql"}}, port : BOOLEAN]
  /\ source # "file" => world.file = << >>
  /\ source \in Profiles => world.env = << >>
  /\ mux = Middleware(DefaultConfig)
  /\ asked = [limit |-> FALSE, apiKeys |-> {}]
  /\ notified = FALSE
  /\ quit = FALSE
  /\ code = "none"
  /\ call = [c \in Clients |-> NotAsked]
  /\ requests = 0

Exit(how) ==
  /\ phase' = "exited"
  /\ code' = how

-----------------------------------------------------------------------------
(* LoadFromFile's checks of the path, open, read and Unmarshal.             *)
FileLoads == source = "file" => world.file # Garbled

(* Load, LoadFromFile or LoadProfile, which checks nothing.                 *)
Loaded ==
  CASE source = "env"       -> Override(DefaultConfig, world.env)
    [] source = "file"      -> Override(Override(DefaultConfig, world.file), world.env)
    [] source \in Profiles  -> LoadProfile(source)

LoadConfig ==
  /\ phase = "start"
  /\ IF FileLoads /\ EnvParses(world.env) /\ (source \in Profiles \/ Validate(Loaded))
     THEN /\ cfg' = Loaded
          /\ phase' = "loaded"
          /\ UNCHANGED code
     ELSE /\ Exit("failed")
          /\ UNCHANGED cfg
  /\ UNCHANGED <<limiterVars, source, world, mux, asked, notified, quit, call, requests>>

(* The rest of BuildApp: secrets, storage, service, handler.                *)
BuildApp ==
  /\ phase = "loaded"
  /\ IF SecretsLoad(cfg, world.secrets) /\ StorageMade(cfg, world.up)
     THEN /\ mux' = Middleware(cfg)
          /\ asked' = [limit |-> cfg.limit, apiKeys |-> cfg.apiKeys]
          /\ phase' = "built"
          /\ UNCHANGED code
     ELSE /\ Exit("failed")
          /\ UNCHANGED <<mux, asked>>
  /\ UNCHANGED <<limiterVars, source, cfg, world, notified, quit, call, requests>>

Nowhere == [env |-> << >>, file |-> << >>, secrets |-> {}, up |-> {}, port |-> TRUE]

(* The goroutine that serves; main calls signal.Notify meanwhile.  Once the *)
(* server listens, nothing reads where it came from.                        *)
Listen ==
  /\ phase = "built"
  /\ \/ /\ world.port
        /\ phase' = "serving"
        /\ source' = "env" /\ cfg' = DefaultConfig /\ world' = Nowhere
        /\ UNCHANGED code
     \/ /\ ~world.port
        /\ Exit("failed")
        /\ UNCHANGED <<source, cfg, world>>
  /\ UNCHANGED <<limiterVars, mux, asked, notified, quit, call, requests>>

Notify ==
  /\ phase \in {"built", "serving"}
  /\ ~notified
  /\ notified' = TRUE
  /\ UNCHANGED <<limiterVars, phase, source, cfg, world, mux, asked, quit, code, call, requests>>

(* SIGINT or SIGTERM; nobody having asked for it, it ends the process.      *)
Signal ==
  /\ phase # "exited"
  /\ IF notified
     THEN quit' = TRUE /\ UNCHANGED <<phase, code>>
     ELSE Exit("killed") /\ UNCHANGED quit
  /\ UNCHANGED <<limiterVars, source, cfg, world, mux, asked, notified, call, requests>>

Shutdown ==
  /\ phase \in {"built", "serving"}
  /\ quit
  /\ phase' = "draining"
  /\ UNCHANGED <<limiterVars, source, cfg, world, mux, asked, notified, quit, code, call, requests>>

(* A bug: Shutdown gets a context that never ends.                         *)
DrainForever ==
  /\ phase = "draining"
  /\ \A c \in Clients : call[c].pc = "free"
  /\ Exit("stopped")
  /\ UNCHANGED <<limiterVars, source, cfg, world, mux, asked, notified, quit, call, requests>>

(* Shutdown returns when no request is in progress, or at the timeout.      *)
Drain ==
  /\ phase = "draining"
  /\ \/ /\ \A c \in Clients : call[c].pc = "free"
        /\ Exit("stopped")
     \/ Exit("failed")
  /\ UNCHANGED <<limiterVars, source, cfg, world, mux, asked, notified, quit, call, requests>>

-----------------------------------------------------------------------------
Running == phase \in {"serving", "draining"}

Keep(c, rec) ==
  /\ call' = [call EXCEPT ![c] = rec]
  /\ UNCHANGED <<mainVars, requests>>

(* A client sends a request; a limited server reads the clock for it.  What *)
(* is asked for is chosen when it is looked at.                             *)
Arrive(c) ==
  /\ phase = "serving"
  /\ call[c].pc = "free"
  /\ requests < MaxRequests
  /\ requests' = requests + 1
  /\ \E key \in Keys :
       call' = [call EXCEPT ![c] =
                  [NotAsked EXCEPT !.pc = IF mux.limited THEN "counting" ELSE "admitted",
                                   !.key = key,
                                   !.at = IF mux.limited THEN clock ELSE 0]]
  /\ UNCHANGED <<limiterVars, mainVars>>

(* withRateLimit                                                            *)
Count(c) ==
  /\ Running
  /\ call[c].pc = "counting"
  /\ Allow(call[c].key, call[c].at)
  /\ Keep(c, IF Passes(bucket[call[c].key], call[c].at)
             THEN [call[c] EXCEPT !.pc = "admitted", !.at = 0, !.counted = TRUE]
             ELSE [call[c] EXCEPT !.pc = "answer", !.at = 0, !.status = "rate_limited"])

(* A bug: the key's absence is answered and the request goes on.           *)
RouteOn(c) ==
  /\ Running
  /\ call[c].pc = "admitted"
  /\ \E kind \in Kinds :
       LET answer ==
             CASE kind = "options"           -> IF mux.cors THEN "no_content" ELSE "not_found"
               [] kind = "malformed"         -> "invalid_request"
               [] kind \in {"write", "read"} -> IF mux.keyed /\ call[c].key \notin mux.allowed
                                                THEN "unauthorized" ELSE "none"
       IN  Keep(c, [call[c] EXCEPT !.pc = IF answer \in {"none", "unauthorized"}
                                          THEN "service" ELSE "answer",
                                   !.kind = kind, !.status = answer])
  /\ UNCHANGED limiterVars

(* withAPIKeyAuth                                                           *)
Authorized(c) == mux.keyed => call[c].key \in mux.allowed

(* withCORS                                                                 *)
Preflight(kind) == mux.cors /\ kind = "options"

(* The routes; what is well formed goes to the service.  invalid_request    *)
(* stands for invalid_user, invalid_delta and invalid_badge.                *)
Users(kind) ==
  IF kind \in {"write", "read"} THEN "none"
  ELSE IF kind = "malformed" THEN "invalid_request" ELSE "not_found"

Route(c) ==
  /\ Running
  /\ call[c].pc = "admitted"
  /\ \E kind \in Kinds :
       LET answer == IF ~Authorized(c) THEN "unauthorized"
                     ELSE IF Preflight(kind) THEN "no_content" ELSE Users(kind)
       IN  Keep(c, [call[c] EXCEPT !.pc = IF answer = "none" THEN "service" ELSE "answer",
                                   !.kind = kind, !.status = answer])
  /\ UNCHANGED limiterVars

(* The service answers.  Every error of a write is answered invalid_input,  *)
(* a storage call that failed included, whose change may or may not have    *)
(* been applied.  The first status written is the one sent.                 *)
Serve(c) ==
  /\ Running
  /\ call[c].pc = "service"
  /\ \E status \in {"ok", "invalid_input", "internal"}, applied \in BOOLEAN :
       /\ IF call[c].kind = "write"
          THEN status = "invalid_input" \/ (status = "ok" /\ applied)
          ELSE status # "invalid_input" /\ ~applied
       /\ Keep(c, [call[c] EXCEPT !.pc = "answer", !.applied = applied,
                                  !.status = IF @ = "none" THEN status ELSE @])
  /\ UNCHANGED limiterVars

(* The SDK's call returns the answer, as a success or an error, or the loss *)
(* of the connection; it never tries again.                                 *)
Return(c) ==
  /\ \/ Running /\ call[c].pc = "answer"
     \/ phase = "exited" /\ call[c].pc # "free"
  /\ Keep(c, NotAsked)
  /\ UNCHANGED limiterVars

Advance ==
  /\ clock < MaxClock
  /\ Running
  /\ Tick
  /\ UNCHANGED <<mainVars, call, requests>>

Next ==
  \/ LoadConfig \/ BuildApp \/ Listen \/ Notify \/ Signal \/ Shutdown \/ Drain
  \/ Advance
  \/ \E c \in Clients : Arrive(c) \/ Count(c) \/ Route(c) \/ Serve(c) \/ Return(c)

Spec == Init /\ [][Next]_vars

(* main and the goroutine that serves go on; requests may hang.             *)
FairSpec ==
  /\ Spec
  /\ WF_vars(LoadConfig) /\ WF_vars(BuildApp) /\ WF_vars(Listen) /\ WF_vars(Notify)
  /\ WF_vars(Shutdown) /\ WF_vars(Drain)

-----------------------------------------------------------------------------
(* Properties                                                              *)

(* What the configuration asks for is in force for every request that      *)
(* reaches the service: it was counted, and its key is one of the keys.     *)
ServiceGuarded ==
  \A c \in Clients :
    call[c].pc = "service" =>
      /\ asked.limit => call[c].counted
      /\ asked.apiKeys # {} => call[c].key \in asked.apiKeys

(* invalid_input is the only error whose change may have been made: a       *)
(* client refused for its rate, its key or its request may send the request *)
(* again without making the change twice.                                   *)
RefusalChangesNothing ==
  \A c \in Clients :
    call[c].applied => call[c].status \in {"ok", "invalid_input"}

(* A signal ends the process, whatever its requests do.                     *)
SignalExits == quit ~> (phase = "exited")
=============================================================================
