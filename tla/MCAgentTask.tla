---------------------------- MODULE MCAgentTask ----------------------------
(* Instances of AgentTask small enough for TLC. *)
EXTENDS AgentTaskInductive

CONSTANTS look, draft, push

(* look: a read; draft: a local artifact; push: an external write. *)
OneSkill == {push}
TwoSkills == {look, push}
AllSkills == {look, draft, push}

MCEffect == [s \in Skills |-> CASE s = look  -> "read"
                                [] s = draft -> "local_artifact"
                                [] OTHER     -> "external_write"]
MCApproval == [s \in Skills |-> "unset"]
MCRequires == [s \in Skills |-> IF s = push THEN Skills \ {push} ELSE {}]
MCRequired == {push}
MCActionRate == [s \in Skills |-> IF s = push THEN 2 ELSE 1]
=============================================================================
