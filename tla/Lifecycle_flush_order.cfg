SPECIFICATION FairSpec
CONSTANTS
    Kubelet = vk
    Workers = {w1}
    Reconciler = rec
    Marks = {"creating", "ready"}
    Messages = {"boom"}
    MaxUID = 1
    MaxGen = 1
    Attempts = 1
CHECK_DEADLOCK FALSE
PROPERTIES
    AnnotationConverges
