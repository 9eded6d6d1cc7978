-------------------------- MODULE MCInstanceProfile --------------------------
(* The instance profiles of one NodeClass; a role may have a path.           *)
EXTENDS InstanceProfile

MCBaseOf == [r \in Roles |-> CASE r = "path/role2" -> "role2" [] OTHER -> r]
=============================================================================
