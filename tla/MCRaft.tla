------------------------------- MODULE MCRaft -------------------------------
(***************************************************************************)
(* Small instances of Raft for TLC, three of them in one run: config says  *)
(* which of them a behaviour is of.  The configuration file gives the      *)
(* constants of the first one, which has no pre-votes.  The other two have *)
(* pre-votes and no proposals; one of them has a campaign more, the other  *)
(* one a heartbeat.                                                        *)
(***************************************************************************)
EXTENDS RaftInv, TLC

VARIABLE config

Symmetry == Permutations(Server)

(* Messages that can still have an effect.  Step drops one of an earlier   *)
(* term, terms only grow, and within a term a server is a candidate or the *)
(* leader for one stretch only, so what Live leaves out stays without      *)
(* effect.                                                                 *)
Awaits(i, m) ==
  CASE m.type = "MsgVoteResp" ->
         state[i] = Candidate /\ m.from \notin granted[i] \cup rejected[i]
    [] m.type = "MsgAppResp" ->
         /\ state[i] = Leader
         /\ \/ m.reject
            \/ m.logIndex > match[i][m.from]
            \/ m.logIndex >= next[i][m.from]
    [] m.type = "MsgHeartbeatResp" -> state[i] = Leader /\ m.ctx \in Ctx
    [] m.type \in {"MsgApp", "MsgHeartbeat"} -> state[i] # Leader
    [] OTHER -> TRUE

Live(m) ==
  \/ m.type \in {"MsgProp", "MsgReadIndex"}
  \/ m.term > term[m.to]
  \/ m.term = term[m.to] /\ Awaits(m.to, m)

(* States that differ in other messages only have the same future: View    *)
(* identifies them.  It keeps what the bounds of the model count; a server *)
(* calls a pre-election twice in a term, and an election once.             *)
View ==
  <<electionVars, logVars, progressVars, readVars, {m \in msgs : Live(m)},
    Cardinality(Campaigns),
    {c \in Campaigns : c[1] = "MsgPreVote" /\ c[3] = term[c[2]]},
    Cardinality(Beats), Proposed>>

P == INSTANCE Raft WITH
       PreVote <- TRUE, Value <- {}, MaxTerm <- 3, MaxCampaigns <- 4, MaxBeats <- 0

B == INSTANCE Raft WITH
       PreVote <- TRUE, Value <- {}, MaxTerm <- 3, MaxCampaigns <- 3, MaxBeats <- 1

ElectionsInit == Init /\ config \in {"votes", "preVotes", "beats"}

ElectionsNext ==
  /\ UNCHANGED config
  /\ \/ config = "votes" /\ Next
     \/ config = "preVotes" /\ P!Next
     \/ config = "beats" /\ B!Next

ElectionsSpec == ElectionsInit /\ [][ElectionsNext]_<<vars, config>>

ElectionsView == <<config, View>>

\* The instance without pre-votes alone, for the runs about reads.
ReadsInit == Init /\ config = "votes"

ReadsSpec == ReadsInit /\ [][ElectionsNext]_<<vars, config>>

\* With PreVote a server raises its term to campaign only after a majority
\* of the cluster told it, in its current term, that it could win (poll): a
\* server that is cut off or behind disrupts nobody.  Nothing in an answer
\* says which pre-vote of the term it is for: one that was given to an
\* earlier pre-vote of the same term counts.
PreVoteBacked == [][config # "votes" => P!CampaignBacked]_vars

=============================================================================
