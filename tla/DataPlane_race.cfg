SPECIFICATION Spec
CONSTANTS
    s1 = s1  r1 = r1  e1 = e1  alice = alice  none = none
    Sessions = {r1}
    Envs = {}
    Credentials = {alice}
    Owner <- MCOwner
    EnvOwner <- MCEnvOwner
    EnvOf <- MCEnvOf
    MaxStreams = 2
    MaxSends = 1
    MaxRestarts = 0
    MaxLosses = 1
CHECK_DEADLOCK FALSE
INVARIANT OpenMeansConnected
