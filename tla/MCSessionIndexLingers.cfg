\* A harness that ends before the daemon connects its watch.
CONSTANTS
    Names <- NoNames
    NoLabel = NoLabel
    Label = Label
    MaxRenames = 0
    MaxAttaches = 0
    MaxCrashes = 0
SPECIFICATION Spec
INVARIANT NeverLingersRunning
