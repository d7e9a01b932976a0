----------------------- MODULE MCPasskeyDeactivation -----------------------
(***************************************************************************)
(* One login, by one member who can be deactivated.                        *)
(***************************************************************************)
EXTENDS PasskeyDeactivation

CONSTANTS house, token

MCHome   == [m \in Member |-> house]
MCDerive == [m \in Member |-> token]

=============================================================================
