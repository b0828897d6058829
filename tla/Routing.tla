------------------------------ MODULE Routing ------------------------------
(***************************************************************************)
(* agent_routing.rs: which agent answers a message and in which session.   *)
(* Bindings are tried in seven tiers, from the most to the least specific; *)
(* inside a tier the first binding of the configuration wins.              *)
(*                                                                         *)
(* A binding and an input are records; NONE stands for a missing field.    *)
(* A peer is [kind, id].  A session key is the tuple of the parts that the *)
(* code joins with colons.                                                 *)
(***************************************************************************)
EXTENDS Naturals, Sequences, FiniteSets

CONSTANT NONE           \* a field that is not set

Scopes == {"main", "per_peer", "per_channel_peer", "per_account_channel_peer"}

\* A peer id is replaced by the canonical name of the first link that lists it.
ResolveLinked(id, links) ==
    LET hit == {i \in DOMAIN links : id \in links[i].peers}
    IN  IF hit = {} THEN id
        ELSE links[CHOOSE i \in hit : \A j \in hit : i <= j].canonical

SessionKey(agent, channel, peer, scope, account, links) ==
    IF peer = NONE THEN <<agent, channel, "none", "none">>
    ELSE IF peer.kind # "direct" THEN <<agent, channel, peer.kind, peer.id>>
    ELSE LET id == ResolveLinked(peer.id, links)
         IN  CASE scope = "main"             -> <<agent, "main">>
               [] scope = "per_peer"         -> <<agent, "direct", id>>
               [] scope = "per_channel_peer" -> <<agent, channel, "direct", id>>
               [] scope = "per_account_channel_peer" ->
                    <<agent, channel, account, "direct", id>>

DefaultAgent(agents) == IF agents = <<>> THEN "main" ELSE agents[1]

PeerMatches(bp, ip) == bp # NONE /\ ip # NONE /\ bp = ip

InScope(b, in) ==
    /\ b.channel \in {NONE, in.channel}
    /\ b.account \in {NONE, in.account}

Unconstrained(b) == b.peer = NONE /\ b.guild = NONE /\ b.team = NONE /\ b.roles = {}

AccountOnly(b) == Unconstrained(b)
ChannelOnly(b) == Unconstrained(b) /\ b.account = NONE

AllMatch(b, in, peer) ==
    /\ b.peer = NONE \/ PeerMatches(b.peer, peer)
    /\ b.guild \in {NONE, in.guild}
    /\ b.team \in {NONE, in.team}
    /\ b.roles = {} \/ b.roles \cap in.roles # {}

\* The binding b is a candidate of a tier.
InTier(t, b, in) ==
    CASE t = 1 -> PeerMatches(b.peer, in.peer) /\ AllMatch(b, in, in.peer)
      [] t = 2 -> PeerMatches(b.peer, in.parent) /\ AllMatch(b, in, in.parent)
      [] t = 3 -> /\ in.guild # NONE /\ in.roles # {} /\ b.roles # {}
                  /\ AllMatch(b, in, in.peer)
      [] t = 4 -> /\ in.guild # NONE /\ b.guild = in.guild
                  /\ b.peer = NONE /\ b.team = NONE /\ b.roles = {}
      [] t = 5 -> /\ in.team # NONE /\ b.team = in.team
                  /\ b.peer = NONE /\ b.guild = NONE /\ b.roles = {}
      [] t = 6 -> AccountOnly(b) /\ b.account # NONE
      [] t = 7 -> ChannelOnly(b) /\ b.channel # NONE

FirstOf(S) == CHOOSE i \in S : \A j \in S : i <= j

\* The tier and the position of the binding that decides, or tier 8, the default agent.
Decision(in, bindings) ==
    LET at(t) == {i \in DOMAIN bindings :
                    InScope(bindings[i], in) /\ InTier(t, bindings[i], in)}
        hit   == {t \in 1..7 : at(t) # {}}
    IN  IF hit = {} THEN [tier |-> 8, binding |-> 0]
        ELSE LET t == FirstOf(hit) IN [tier |-> t, binding |-> FirstOf(at(t))]

ResolveRoute(in, bindings, agents, scope, links) ==
    LET d     == Decision(in, bindings)
        agent == IF d.tier = 8 THEN DefaultAgent(agents) ELSE bindings[d.binding].agent
    IN  [agent   |-> agent,
         by      |-> d.tier,
         session |-> SessionKey(agent, in.channel, in.peer, scope, in.account, links)]
=============================================================================
