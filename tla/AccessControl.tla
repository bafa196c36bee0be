---------------------------- MODULE AccessControl ----------------------------
(***************************************************************************)
(* InitializableAccessControl.sol, the base of the upgradeable contracts:  *)
(* a user's roles and the contract's features are bits of the same masks.  *)
(***************************************************************************)

ROLE_ACCESS_MANAGER == "access manager"

\* _evaluateBy: the bits the sender has no permission for stay as they are.
EvaluateBy(permissions, target, desired) ==
    (target \cup (permissions \cap desired)) \ (permissions \ desired)
=============================================================================
