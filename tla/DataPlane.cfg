SPECIFICATION Spec
CONSTANTS
    s1 = s1  r1 = r1  e1 = e1  alice = alice  none = none
    Sessions = {s1, r1}
    Envs = {e1}
    Credentials = {alice}
    Owner <- MCOwner
    EnvOwner <- MCEnvOwner
    EnvOf <- MCEnvOf
    MaxStreams = 3
    MaxSends = 2
    MaxRestarts = 1
    MaxLosses = 2
CHECK_DEADLOCK FALSE
INVARIANT TypeOK
INVARIANT OnlineIsReachable
INVARIANT AttachedToReader
PROPERTY DeliversInOrder
