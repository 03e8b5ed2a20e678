SPECIFICATION Spec
CONSTANT
    MaxEvents = 4
INVARIANTS TypeOK FollowsDriver NeverStranded
