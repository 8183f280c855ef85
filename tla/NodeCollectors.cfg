SPECIFICATION Spec
CONSTANTS
    p1 = p1
    p2 = p2
    vm = vm
    Pods = {p1, p2}
    Vmis = {vm}
    VmiOf <- Restarted
    NoPod = NoPod
    Fds = {1, 2}
    MaxExits = 2
    MaxStarts = 4
INVARIANT OwnPod
PROPERTIES CountersHold ThreadFollowed
