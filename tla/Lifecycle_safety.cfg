SPECIFICATION Spec
CONSTANTS
    Kubelet = vk
    Workers = {w1}
    Reconciler = rec
    Marks = {"ready"}
    Messages = {"boom"}
    MaxUID = 2
    MaxGen = 2
    Attempts = 1
CHECK_DEADLOCK FALSE
INVARIANTS
    TypeOK
    TrackedShowsIntent
    
    ObservedNeverAhead
    
PROPERTIES
    IntentAdvances
