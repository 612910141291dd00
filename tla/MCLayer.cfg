\* One device, two queues, two swapchains of up to two images.
\* A game may crash: the behaviour then ends.
CHECK_DEADLOCK FALSE
SPECIFICATION VkSpec
SYMMETRY MCSymmetry
CONSTANTS
    d1 = d1
    d2 = d2
    q1 = q1
    q2 = q2
    a = a
    b = b
    Devices = {d1}
    Queues = {q1, q2}
    Swaps = {a, b}
    DeviceOf <- MCOneDevice
    Exports = {e1, e2}
    MaxImages = 2
    NoQueue = noQueue
    NoSwap = noSwap
    NoExport = noExport
INVARIANTS
    VkTypeOK
    FramesInFlight
    CopiesHaveTargets
    NothingLeaks
PROPERTIES
    IsAHook
