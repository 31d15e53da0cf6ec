-------------------------- MODULE ModelBackendProofs --------------------------
(***************************************************************************)
(* The two promises of ModelBackend, for any digests, tags, configurations *)
(* and number of calls, and whatever the server's operator does.           *)
(*                                                                         *)
(* What makes them inductive: a backend that got past the gate stays one   *)
(* whose configuration the gate lets pass, and the request under way is    *)
(* the one the configuration asks for, so that what is pulled between two  *)
(* steps cannot change which digests may answer it.                        *)
(***************************************************************************)
EXTENDS ModelBackend, TLAPS

Phases == {"gate", "health", "ready", "waiting", "refused"}

PhaseOK == cfg \in Configs /\ phase \in Phases
RequestOK == request = IF phase = "waiting" THEN RequestModel(cfg) ELSE NoRequest
ServerOK == tags \in [Tags -> Digests \cup {NotThere}] /\ answers \subseteq Digests
PassedGate == phase \in {"health", "ready", "waiting"} => Refusal(cfg) = "none"
ContactsOK == contacted # {} =>
                  Reaches(cfg) /\ contacted = {Host(cfg)} /\ Refusal(cfg) = "none"

IInv == PhaseOK /\ RequestOK /\ ServerOK /\ PassedGate /\ ContactsOK /\ PinnedModelAnswers

(* What the gate lets pass, and that its requests stay on the machine if   *)
(* the client reads the host as the gate did (backends/__init__.py:77-101).*)
LEMMA GatePasses ==
    ASSUME NEW c \in AllConfigs, Refusal(c) = "none"
    PROVE  /\ c.backend \in Backends /\ ~c.egress
           /\ c.model.kind # "excluded" /\ ~Malformed(c)
           /\ c.host.reads # "elsewhere"
           /\ Reaches(c) /\ ReadAlike(c) => Host(c) = "loopback"
  BY DEF Refusal, Excluded, Malformed, Host, Reaches, ReadAlike, OffLoopback, AllConfigs, Backends

(* Only a model whose digest begins as the pin does serves a pinned request*)
(* (local_ollama.py:29-36).                                                *)
LEMMA PinnedRequest ==
    ASSUME NEW c \in AllConfigs, c.backend = "local_ollama", c.model.kind \in {"pinned", "bare"},
           NEW d \in Digests, Serves(RequestModel(c), d)
    PROVE  Prefix[d] = Prefix[c.model.of]
<1>1. RequestModel(c) = [by |-> "prefix", id |-> Prefix[c.model.of]]
  BY DEF RequestModel
<1>2. Serves(RequestModel(c), d) <=> Prefix[d] = Prefix[c.model.of]
  BY <1>1 DEF Serves
<1>3. QED
  BY <1>2

LEMMA InitIInv == Init => IInv
  BY DEF Init, IInv, PhaseOK, RequestOK, ServerOK, PassedGate, ContactsOK, PinnedModelAnswers,
         Phases, NoRequest

LEMMA StoredAreDigests == ServerOK => Stored \subseteq Digests
  BY DEF ServerOK, Stored

LEMMA NextIInv == IInv /\ [Next]_vars => IInv'
<1> SUFFICES ASSUME IInv, [Next]_vars PROVE IInv'
  OBVIOUS
<1> USE DEF IInv, serverVars, historyVars, resolveVars
<1>c. Configs \subseteq AllConfigs
  BY ConfigsAssumption
<1>1. CASE Gate
  BY <1>1 DEF Gate, PhaseOK, RequestOK, ServerOK, PassedGate, ContactsOK, PinnedModelAnswers,
              Pinned, Phases
<1>2. CASE Health
  <2>1. /\ contacted' = {} \/ (Reaches(cfg) /\ contacted' = {Host(cfg)})
        /\ Refusal(cfg) = "none"
    BY <1>2 DEF Health, Contacts, PassedGate, ContactsOK
  <2>2. ContactsOK' /\ PassedGate'
    BY <1>2, <2>1 DEF Health, ContactsOK, PassedGate
  <2>3. PhaseOK' /\ RequestOK' /\ ServerOK' /\ PinnedModelAnswers'
    BY <1>2 DEF Health, PhaseOK, RequestOK, ServerOK, PinnedModelAnswers, Pinned, Phases
  <2>4. QED
    BY <2>2, <2>3
<1>3. CASE Act
  <2>1. ContactsOK' /\ PassedGate'
    BY <1>3 DEF Act, Contacts, ContactsOK, PassedGate
  <2>2. PhaseOK' /\ RequestOK' /\ ServerOK' /\ PinnedModelAnswers'
    BY <1>3 DEF Act, PhaseOK, RequestOK, ServerOK, PinnedModelAnswers, Pinned, Phases
  <2>3. QED
    BY <2>1, <2>2
<1>4. CASE Answered
  <2>1. PICK d \in Stored : Serves(request, d) /\ answers' \subseteq answers \cup {d}
    BY <1>4 DEF Answered
  <2>2. d \in Digests
    BY <2>1, StoredAreDigests
  <2>3. request = RequestModel(cfg)
    BY <1>4 DEF Answered, RequestOK
  <2>4. Pinned => Prefix[d] = Prefix[cfg.model.of]
    BY <2>1, <2>2, <2>3, <1>c, PinnedRequest DEF Pinned, PhaseOK
  <2>5. PinnedModelAnswers'
    BY <2>1, <2>4, <1>4 DEF Answered, PinnedModelAnswers, Pinned
  <2>6. PhaseOK' /\ RequestOK' /\ ServerOK' /\ PassedGate' /\ ContactsOK'
    BY <2>1, <2>2, <1>4 DEF Answered, PhaseOK, RequestOK, ServerOK, PassedGate, ContactsOK, Phases
  <2>7. QED
    BY <2>5, <2>6
<1>5. CASE Fails
  BY <1>5 DEF Fails, PhaseOK, RequestOK, ServerOK, PassedGate, ContactsOK, PinnedModelAnswers,
              Pinned, Phases
<1>6. CASE ServerChanges
  <2>1. tags' \in [Tags -> Digests \cup {NotThere}]
    BY <1>6 DEF ServerChanges, ServerOK
  <2>2. QED
    BY <2>1, <1>6 DEF ServerChanges, PhaseOK, RequestOK, ServerOK, PassedGate, ContactsOK,
                      PinnedModelAnswers, Pinned
<1>7. CASE UNCHANGED vars
  BY <1>7 DEF vars, PhaseOK, RequestOK, ServerOK, PassedGate, ContactsOK, PinnedModelAnswers,
              Pinned
<1>8. QED
  BY <1>1, <1>2, <1>3, <1>4, <1>5, <1>6, <1>7 DEF Next

LEMMA BackendInvariant == Spec => []IInv
  BY InitIInv, NextIInv, PTL DEF Spec

(* Whatever is pulled, removed or restarted at whatever moment, every      *)
(* response of a pinned configuration comes from a model whose digest      *)
(* begins as the pin does (local_ollama.py:29-46).                         *)
THEOREM PinHolds == Spec => []PinnedModelAnswers
<1>1. IInv => PinnedModelAnswers
  BY DEF IInv
<1>2. QED
  BY <1>1, BackendInvariant, PTL

(* No request is made for a configuration the gate refuses, whether for an *)
(* excluded model, a digest that is none, an allowlist or a host it reads  *)
(* as another machine; and none leaves this machine if the client reads the*)
(* host as the gate did (backends/__init__.py:56-108).                     *)
THEOREM GateFirst == Spec => []NothingBeforeTheGate
<1>1. IInv => NothingBeforeTheGate
  <2>1. SUFFICES ASSUME IInv, contacted # {} PROVE NothingBeforeTheGate
    BY DEF NothingBeforeTheGate
  <2>2. cfg \in AllConfigs /\ Reaches(cfg) /\ contacted = {Host(cfg)} /\ Refusal(cfg) = "none"
    BY <2>1, ConfigsAssumption DEF IInv, PhaseOK, ContactsOK
  <2>3. QED
    BY <2>2, GatePasses DEF NothingBeforeTheGate
<1>2. QED
  BY <1>1, BackendInvariant, PTL
=============================================================================
