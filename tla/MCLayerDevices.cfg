\* Two devices, each with one queue and one swapchain at a time, and one
\* `capturing` for both. A capture that is forgotten uses up a name in
\* Exports: with no name left none starts.
\* A game may crash: the behaviour then ends.
CHECK_DEADLOCK FALSE
SPECIFICATION VkSpec
SYMMETRY MCDeviceSymmetry
CONSTANTS
    d1 = d1
    d2 = d2
    q1 = q1
    q2 = q2
    a = a
    b = b
    Devices = {d1, d2}
    Queues = {q1, q2}
    Swaps = {a, b}
    DeviceOf <- MCTwoDevices
    Exports = {e1, e2}
    MaxImages = 2
    NoQueue = noQueue
    NoSwap = noSwap
    NoExport = noExport
INVARIANTS
    FramesInFlight
    SemaphoresReady
