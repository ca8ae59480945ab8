------------------------------ MODULE MCAlarms ------------------------------
(* Calls of Upsert for one alarm. *)
EXTENDS Alarms

CONSTANTS low, high, src, off, ip, lan

MCRisks == [u \in Upserts |-> IF u = low THEN {0, 1} ELSE {2}]
MCTime  == [u \in Upserts |-> IF u = low THEN 2 ELSE 1]

\* One host, which is public, and one port: a lookup of each kind.
MCTerms == [u \in Upserts |->
  [k \in Kinds |-> IF k = "intel" THEN IntelTerms({ip, lan}, {lan}, FALSE)
                   ELSE VulnTerms({[ips |-> {ip, "HOME_NET"}, ports |-> {"ANY"}]}, {ip}, "80")]]
MCSources == [k \in Kinds |-> IF k = "vuln" THEN {src, off} ELSE {off}]
=============================================================================
