CONSTANTS
    Components = {"State", "Health", "Attacker", "SpriteSheet"}
    Factory = {"State", "Health", "Attacker"}
    Systems = {"State", "Timers", "Combat"}
    Requirements <- SystemRequirements
    Raised = {"Moving"}
    Masks <- FileMasks
    MaxId = 1
    MaxEvents = 2
SPECIFICATION Spec
INVARIANTS TypeOK CounterFree StaleEventsAreSpawns
PROPERTIES ImplementsView
