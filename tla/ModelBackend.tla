----------------------------- MODULE ModelBackend -----------------------------
(***************************************************************************)
(* The model an agent run talks to: resolve, which refuses a configuration *)
(* or builds its adapter (backends/__init__.py, the gates of model.py), the*)
(* two local adapters (local_ollama.py, local_llamacpp.py) and the response*)
(* floor they share (parse_model_response), against a model server whose   *)
(* operator stops it, pulls another model under a tag, or removes one,     *)
(* between the health check and a call and between a call and its answer.  *)
(*                                                                         *)
(* A digest is a model value; Prefix gives its first 12 hex digits, which  *)
(* is what a request for a pinned model carries.  What the model says is   *)
(* the business of AgentRuntime.                                           *)
(***************************************************************************)
EXTENDS Naturals

CONSTANTS Digests, Prefixes, Prefix,     \* digests, and their 12-hex prefixes
          Tags,                          \* names in the server's catalogue
          NotThere,                      \* a tag the server does not have
          Configs,                       \* configurations, see AllConfigs
          MaxCalls                       \* model bound: calls of act

(***************************************************************************)
(* backend: of the registered ids, two are shipped.  model: a tag, a bare  *)
(* hex id of 12 digits, tag@sha256:digest, one with a malformed digest, or *)
(* one of an excluded lineage; name and of are its tag and digest, where   *)
(* it has them.                                                            *)
(*                                                                         *)
(* host: what the gate reads of the string configured, by splitting it at  *)
(* "://" and at ":", and where the HTTP client takes the whole of it: to   *)
(* this machine, to another one (a proxy of the environment is one too), to*)
(* none, since it names no scheme the client knows, or not even that, since*)
(* it is no URL.  Two parsers read one string, so any combination of the   *)
(* two may be met.  A configuration without a host reads as an empty one   *)
(* and goes to the adapter's default, which is on this machine.            *)
(***************************************************************************)
Backends == {"local_ollama", "local_llamacpp"}
AllConfigs == [backend : Backends \cup {"hosted"},
               model : [kind : {"tag", "bare", "pinned", "malformed", "excluded"},
                        name : Tags, of : Digests],
               host : [reads : {"empty", "loopback", "elsewhere"},
                       goes : {"loopback", "elsewhere", "nowhere", "invalid"}],
               egress : BOOLEAN]

ASSUME PrefixAssumption == Prefix \in [Digests -> Prefixes]
ASSUME ConfigsAssumption == Configs \subseteq AllConfigs
ASSUME NotThereAssumption == NotThere \notin Digests
ASSUME CallsAssumption == MaxCalls \in Nat

VARIABLES cfg,         \* the configuration
          phase,       \* gate, health, ready, waiting, refused
          raised,      \* what the last call of resolve or act raised, "none" if it returned
          request,     \* the id of the model in the request under way
          calls,       \* calls of act so far
          up, tags,    \* the server: is it up, and what its tags point at
          contacted,   \* history: the hosts requests went to
          answers      \* history: digests of the models whose responses were returned

resolveVars == <<cfg, phase, raised, request, calls>>
serverVars == <<up, tags>>
historyVars == <<contacted, answers>>
vars == <<resolveVars, serverVars, historyVars>>

NoRequest == [by |-> "none"]

Init == /\ cfg \in Configs
        /\ phase = "gate" /\ raised = "none" /\ request = NoRequest /\ calls = 0
        /\ up \in BOOLEAN /\ tags \in [Tags -> Digests \cup {NotThere}]
        /\ contacted = {} /\ answers = {}

-----------------------------------------------------------------------------
(* resolve, up to the health check: the registry, assert_model_allowed, the*)
(* adapter's constructor, egress, locality.                                *)

Excluded(c) == c.model.kind = "excluded"
Malformed(c) == c.backend = "local_ollama" /\ c.model.kind = "malformed"
ChecksNoHost(c) == FALSE
OffLoopback(c) == c.host.reads = "elsewhere"

Refusal(c) ==
    IF c.backend \notin Backends \/ Excluded(c) THEN "BackendRejected"
    ELSE IF Malformed(c) THEN "ModelError"
    ELSE IF c.egress \/ OffLoopback(c) THEN "BackendRejected"
    ELSE "none"

Gate ==
    /\ phase = "gate"
    /\ raised' = Refusal(cfg)
    /\ phase' = IF raised' = "none" THEN "health" ELSE "refused"
    /\ UNCHANGED <<cfg, request, calls, serverVars, historyVars>>

(* The host requests go to, and whether any does.                          *)
Host(c) == c.host.goes
Reaches(c) == Host(c) \in {"loopback", "elsewhere"}
Contacts == contacted' = contacted \cup (IF Reaches(cfg) THEN {Host(cfg)} ELSE {})

(* health: Ollama's list of tags must hold the digest, a digest with the   *)
(* prefix, or the name; llama-server must say it has a model.  A string    *)
(* that is no URL raises what health does not catch.                       *)
Stored == {tags[n] : n \in Tags} \ {NotThere}
OllamaHas(c) ==
    CASE c.model.kind = "pinned" -> c.model.of \in Stored
      [] c.model.kind = "bare" -> \E d \in Stored : Prefix[d] = Prefix[c.model.of]
      [] OTHER -> tags[c.model.name] # NotThere
LlamaServerReady == Stored # {}
Available(c) == IF c.backend = "local_ollama" THEN OllamaHas(c) ELSE LlamaServerReady
Healthy(c) == Reaches(c) /\ up /\ Available(c)

Health ==
    /\ phase = "health" /\ Contacts
    /\ \/ Healthy(cfg) /\ phase' = "ready" /\ UNCHANGED raised
       \/ /\ ~Healthy(cfg) /\ Host(cfg) # "invalid"
          /\ phase' = "refused" /\ raised' = "ModelUnreachable"
       \/ Host(cfg) = "invalid" /\ phase' = "refused" /\ raised' = "InvalidURL"
       \/ /\ Reaches(cfg) /\ up /\ cfg.backend = "local_ollama"   \* {"models": null}
          /\ phase' = "refused" /\ raised' = "TypeError"
    /\ UNCHANGED <<cfg, request, calls, serverVars, answers>>

-----------------------------------------------------------------------------
(* act: one POST.                                                          *)

ByName(c) == [by |-> "tag", id |-> c.model.name]
RequestModel(c) ==
    IF c.backend = "local_llamacpp" THEN [by |-> "label"]
    ELSE IF c.model.kind \in {"pinned", "bare"}
         THEN [by |-> "prefix", id |-> Prefix[c.model.of]]
         ELSE [by |-> "tag", id |-> c.model.name]

Act ==
    /\ phase = "ready" /\ calls < MaxCalls
    /\ calls' = calls + 1
    /\ \/ /\ phase' = "waiting" /\ raised' = "none"
          /\ request' = RequestModel(cfg) /\ Contacts
       \/ /\ raised' \in {"ModelError", "OSError"}     \* too many images, or one not readable
          /\ UNCHANGED <<phase, request, contacted>>
    /\ UNCHANGED <<cfg, serverVars, answers>>

(* The models the server may answer request r with.                        *)
Serves(r, d) == \/ r.by = "tag" /\ tags[r.id] = d
                \/ r.by = "prefix" /\ Prefix[d] = r.id
                \/ r.by = "label"

(* A body that is an object of JSON with a message is parsed and returned; *)
(* other bodies raise ModelError, as other statuses do; but a message or a *)
(* content of an unexpected type raises what the first use of it raises.   *)
OddShape(c) ==
    {"TypeError"} \cup IF c.backend = "local_ollama" THEN {"AttributeError"} ELSE {}

Answered ==
    /\ phase = "waiting" /\ up
    /\ phase' = "ready" /\ request' = NoRequest
    /\ \E d \in {d \in Stored : Serves(request, d)} :
          \/ raised' = "none" /\ answers' = answers \cup {d}
          \/ raised' \in {"ModelError"} \cup OddShape(cfg) /\ UNCHANGED answers
    /\ UNCHANGED <<cfg, calls, serverVars, contacted>>

(* 404, no connection, or timeout_s.                                       *)
Fails ==
    /\ phase = "waiting"
    /\ phase' = "ready" /\ request' = NoRequest /\ raised' = "ModelError"
    /\ UNCHANGED <<cfg, calls, serverVars, historyVars>>

-----------------------------------------------------------------------------
(* The server's operator: start and stop, pull, rm.                        *)

ServerChanges ==
    /\ \/ up' = ~up /\ UNCHANGED tags
       \/ /\ up /\ UNCHANGED up
          /\ \E n \in Tags, d \in Digests \cup {NotThere} : tags' = [tags EXCEPT ![n] = d]
    /\ UNCHANGED <<resolveVars, historyVars>>

Next == Gate \/ Health \/ Act \/ Answered \/ Fails \/ ServerChanges

Spec == Init /\ [][Next]_vars

-----------------------------------------------------------------------------
(* Properties.                                                             *)

TypeOK ==
    /\ cfg \in Configs
    /\ phase \in {"gate", "health", "ready", "waiting", "refused"}
    /\ raised \in {"none", "BackendRejected", "ModelError", "ModelUnreachable", "TypeError",
                   "AttributeError", "OSError", "InvalidURL"}
    /\ calls \in Nat /\ up \in BOOLEAN
    /\ tags \in [Tags -> Digests \cup {NotThere}]
    /\ answers \subseteq Digests
    /\ phase = "waiting" <=> request # NoRequest

(* A pinned model answers: whatever is pulled or removed between the check *)
(* at startup and a call, or while the call waits, every response comes    *)
(* from a model whose digest begins as the pin does (local_ollama.py:29-36,*)
(* S-09).  The request carries 12 digits, so that is what is promised.     *)
Pinned == cfg.backend = "local_ollama" /\ cfg.model.kind \in {"pinned", "bare"}
PinnedModelAnswers == Pinned => \A d \in answers : Prefix[d] = Prefix[cfg.model.of]

(* No request is made, neither to check the model's health nor to run it,  *)
(* for a configuration that should have been refused, nor for one whose    *)
(* host the gate read as another machine: every case is rejected before the*)
(* health check (test_model_backends.py:3-5, model.py D-12).  So none      *)
(* leaves the machine as long as the gate and the client read the host     *)
(* alike; for a string they read differently the code does not ensure it   *)
(* (backends/__init__.py:85 against local_ollama.py:53).                   *)
ReadAlike(c) == Host(c) = "elsewhere" => c.host.reads = "elsewhere"
NothingBeforeTheGate ==
    contacted # {} => /\ cfg.backend \in Backends /\ ~cfg.egress
                      /\ cfg.model.kind # "excluded" /\ ~Malformed(cfg)
                      /\ cfg.host.reads # "elsewhere"
                      /\ ReadAlike(cfg) => contacted = {"loopback"}
=============================================================================
