\* Failed or missing scripts and the dispatcher's exit status: expected violation.
SPECIFICATION Spec
CONSTANTS
    EXPERIMENTS <- MCExperiments
    HelperFiles <- MCHelperFiles
    Argvs <- MCArgvs
    NoArg = NoArg
INVARIANT ExitStatusReflectsFailures
