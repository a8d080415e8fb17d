--------------------------- MODULE RotationProfiles ---------------------------
(***************************************************************************)
(* The rotation tables of src/backend/app/modules/rotation/profiles.py:    *)
(* forty specializations, each with the priority lists its advice is drawn *)
(* from.  An ability keeps the fields the advisor decides by; its spell    *)
(* id, notes, mitigation and maintenance mark are only displayed.          *)
(* Reference: class Ability and class RotationProfile in                   *)
(* src/backend/app/modules/rotation/specs.py.                              *)
(***************************************************************************)
LOCAL INSTANCE Integers
LOCAL INSTANCE Sequences
LOCAL INSTANCE SequencesExt

(* A fresh ability: the defaults of class Ability in specs.py.             *)
Ability(kind, name, priority) ==
  [name |-> name, kind |-> kind, priority |-> priority, weight |-> 1, cost |-> 0, cooldown |-> 0,
   min_targets |-> 0, requires |-> {}, avoid |-> {}, talents |-> {}, mobile |-> FALSE]

(* AbilityKind in specs.py.                                                *)
Core(name, priority) == Ability("core", name, priority)
Builder(name, priority) == Ability("builder", name, priority)
Spender(name, priority) == Ability("spender", name, priority)
Major(name, priority) == Ability("cooldown", name, priority)
Burst(name, priority) == Ability("burst", name, priority)
Defensive(name, priority) == Ability("defensive", name, priority)
Utility(name, priority) == Ability("utility", name, priority)
Dot(name, priority) == Ability("dot", name, priority)
Proc(name, priority) == Ability("proc", name, priority)

(* The optional fields, named for what they ask of the fight.              *)
Costs(c, a) == [a EXCEPT !.cost = c]
Every(seconds, a) == [a EXCEPT !.cooldown = seconds]
AtLeast(n, a) == [a EXCEPT !.min_targets = n]
Under(buff, a) == [a EXCEPT !.requires = {buff}]
Talent(t, a) == [a EXCEPT !.talents = {t}]
Mobile(a) == [a EXCEPT !.mobile = TRUE]

(* A burst trigger without a threshold always fires.                       *)
Always == 0
Trigger(name, threshold) == [name |-> name, threshold |-> threshold]

(* _p: the abilities by priority, those of one priority in source order.   *)
ByPriority(list) ==
  LET Before(i, j) == \/ list[i].priority < list[j].priority
                      \/ list[i].priority = list[j].priority /\ i < j
      order == SetToSortSeq(DOMAIN list, Before)
  IN  [i \in DOMAIN list |-> list[order[i]]]

(* class RotationProfile in specs.py: every list defaults to empty.        *)
Never == -1
Profile(id, name, class, role) ==
  [id |-> id, name |-> name, class |-> class, role |-> role, opener |-> <<>>, single |-> <<>>,
   aoe |-> <<>>, movement |-> <<>>, defensives |-> <<>>, cooldowns |-> <<>>, triggers |-> <<>>,
   execute |-> Never, expected |-> {}]
Ordered(p) ==
  [p EXCEPT !.opener = ByPriority(@), !.single = ByPriority(@), !.aoe = ByPriority(@),
            !.movement = ByPriority(@), !.defensives = ByPriority(@), !.cooldowns = ByPriority(@)]

BloodDeathKnight ==
  [Profile(250, "Blood", "Death Knight", "tank") EXCEPT
     !.opener = <<Costs(2, Core("Marrowrend", 10)), AtLeast(1, Core("Blood Boil", 20))>>,
     !.single = <<Under(195181, Costs(2, Core("Marrowrend", 10))),
         Costs(3, Spender("Heart Strike", 20)), AtLeast(1, Core("Blood Boil", 30)),
         Costs(1, Spender("Death's Caress", 40)), Under(195181, Every(45, Defensive("Tombstone", 5)))>>,
     !.aoe = <<AtLeast(2, Core("Blood Boil", 10)), Under(195181, Costs(2, Core("Marrowrend", 20))),
         Costs(3, Spender("Heart Strike", 30))>>,
     !.movement = <<Mobile(Costs(1, Spender("Death's Caress", 100)))>>,
     !.defensives = <<Every(180, Defensive("Icebound Fortitude", 100)),
         Every(90, Defensive("Vampiric Blood", 100)),
         Every(120, Defensive("Dancing Rune Weapon", 100))>>,
     !.cooldowns = <<Every(120, Defensive("Dancing Rune Weapon", 100))>>,
     !.triggers = <<Trigger("Blood for Blood", Always)>>,
     !.expected = {"Marrowrend", "Heartbreaker", "Blooddrinker"}]

FrostDeathKnight ==
  [Profile(251, "Frost", "Death Knight", "damage") EXCEPT
     !.opener = <<Every(20, Dot("Remorseless Winter", 10)), Core("Howling Blast", 20),
         Costs(2, Spender("Obliterate", 30))>>,
     !.single = <<Costs(2, Spender("Obliterate", 10)), Core("Howling Blast", 20),
         Costs(25, Spender("Frost Strike", 30)), Every(20, Dot("Remorseless Winter", 40)),
         Mobile(Core("Glacial Advance", 50))>>,
     !.aoe = <<AtLeast(2, Every(20, Dot("Remorseless Winter", 10))),
         AtLeast(2, Costs(2, Spender("Frostscythe", 20))), AtLeast(2, Core("Howling Blast", 30)),
         Mobile(AtLeast(2, Core("Glacial Advance", 40)))>>,
     !.movement = <<Mobile(Core("Glacial Advance", 100))>>,
     !.defensives = <<Every(40, Defensive("Anti-Magic Shell", 100))>>,
     !.cooldowns = <<Every(60, Burst("Pillar of Frost", 100)),
         Every(120, Burst("Empower Rune Weapon", 100))>>,
     !.triggers = <<Trigger("Pillar of Frost", 80)>>, !.execute = 35,
     !.expected = {"Obliteration", "Gathering Storm", "Breath of Sindragosa"}]

UnholyDeathKnight ==
  [Profile(252, "Unholy", "Death Knight", "damage") EXCEPT
     !.opener = <<Dot("Virulent Plague (Outbreak)", 10), Costs(2, Builder("Festering Strike", 20)),
         Every(30, Major("Apocalypse", 30))>>,
     !.single = <<Costs(2, Builder("Festering Strike", 10)),
         Under(194310, Costs(2, Spender("Clawing Shadows", 20))), Costs(40, Spender("Death Coil", 30)),
         Costs(2, Spender("Scourge Strike", 30)), Dot("Outbreak", 40),
         Every(480, Burst("Army of the Dead", 5))>>,
     !.aoe = <<AtLeast(2, Every(45, Core("Blighted Rune Weapon", 10))),
         AtLeast(2, Dot("Death and Decay", 20)),
         Under(194310, Costs(2, Spender("Clawing Shadows", 30))),
         Costs(2, Spender("Scourge Strike", 30))>>,
     !.movement = <<Mobile(Costs(40, Spender("Death Coil", 100)))>>,
     !.defensives = <<Every(40, Defensive("Anti-Magic Shell", 100))>>,
     !.cooldowns = <<Every(30, Major("Apocalypse", 100)), Every(480, Burst("Army of the Dead", 100)),
         Every(180, Burst("Summon Gargoyle", 100))>>, !.triggers = <<Trigger("Unholy Assault", 70)>>,
     !.execute = 35, !.expected = {"Festering Wound", "Unholy Pact", "Summon Gargoyle"}]

HavocDemonHunter ==
  [Profile(577, "Havoc", "Demon Hunter", "damage") EXCEPT
     !.opener = <<Every(120, Burst("Metamorphosis", 5)), Costs(40, Spender("Chaos Strike", 20)),
         Costs(-20, Builder("Demon's Bite", 30))>>,
     !.single = <<Costs(40, Spender("Chaos Strike", 10)), Costs(-20, Builder("Demon's Bite", 20)),
         Costs(35, Core("Blade Dance", 30)), Every(30, Core("Eye Beam", 15)),
         Mobile(Every(10, Utility("Fel Rush", 40))), Mobile(Core("Throw Glaive", 50))>>,
     !.aoe = <<AtLeast(2, Costs(35, Core("Blade Dance", 10))),
         AtLeast(2, Every(30, Core("Eye Beam", 15))), Costs(40, Spender("Chaos Strike", 20)),
         Mobile(AtLeast(2, Core("Throw Glaive", 50)))>>,
     !.movement = <<Mobile(Every(10, Utility("Fel Rush", 100))), Mobile(Core("Throw Glaive", 100))>>,
     !.defensives = <<Every(15, Defensive("Demon Spikes", 100)), Every(60, Defensive("Blur", 100))>>,
     !.cooldowns = <<Every(120, Burst("Metamorphosis", 100)), Every(30, Core("Eye Beam", 100))>>,
     !.triggers = <<Trigger("Metamorphosis", 80)>>, !.execute = 30,
     !.expected = {"Momentum", "First Blood", "Essence Break"}]

VengeanceDemonHunter ==
  [Profile(581, "Vengeance", "Demon Hunter", "tank") EXCEPT
     !.opener = <<Every(15, Core("Immolation Aura", 10)), Costs(30, Builder("Fracture", 20)),
         Costs(30, Spender("Soul Cleave", 30))>>,
     !.single = <<Every(15, Core("Immolation Aura", 10)), Costs(30, Builder("Fracture", 20)),
         Costs(30, Spender("Soul Cleave", 30)), Under(204598, Core("Spirit Bomb", 25)),
         Every(45, Defensive("Fel Devastation", 15))>>,
     !.aoe = <<AtLeast(2, Every(15, Core("Immolation Aura", 10))),
         Under(204598, AtLeast(2, Core("Spirit Bomb", 20))), Costs(30, Builder("Fracture", 30)),
         Costs(30, Spender("Soul Cleave", 30))>>, !.movement = <<Mobile(Core("Throw Glaive", 100))>>,
     !.defensives = <<Every(15, Defensive("Demon Spikes", 100)),
         Every(45, Defensive("Fel Devastation", 100)), Every(60, Defensive("Fiery Brand", 100))>>,
     !.cooldowns = <<Every(300, Defensive("Metamorphosis", 100))>>,
     !.triggers = <<Trigger("The Hunt", Always)>>, !.expected = {"Spirit Bomb", "Frailty", "The Hunt"}]

DevourerDemonHunter ==
  [Profile(1480, "Devourer", "Demon Hunter", "damage") EXCEPT
     !.opener = <<Every(12, Core("Consume", 10)), Costs(-20, Builder("Shear", 20)),
         Costs(35, Spender("Soul Carver", 30))>>,
     !.single = <<Costs(35, Spender("Soul Carver", 10)), Costs(-20, Builder("Shear", 20)),
         Every(12, Core("Consume", 15)), Core("Voidcleave", 30)>>,
     !.aoe = <<AtLeast(2, Every(12, Core("Consume", 10))),
         AtLeast(2, Costs(35, Spender("Soul Carver", 20))), Costs(-20, Builder("Shear", 30))>>,
     !.movement = <<Mobile(Every(10, Utility("Fel Rush", 100)))>>,
     !.defensives = <<Every(60, Defensive("Blur", 100))>>,
     !.cooldowns = <<Every(120, Burst("Metamorphosis", 100))>>, !.triggers = <<Trigger("Devour", 70)>>,
     !.expected = {"Devour", "Voidcleave"}]

BalanceDruid ==
  [Profile(102, "Balance", "Druid", "damage") EXCEPT
     !.opener = <<Dot("Moonfire", 10), Dot("Sunfire", 20), Costs(40, Spender("Starsurge", 30))>>,
     !.single = <<Costs(-4, Builder("Wrath", 10)), Costs(-8, Builder("Starfire", 10)),
         Dot("Moonfire", 20), Dot("Sunfire", 30), Costs(40, Spender("Starsurge", 40)),
         Under(274000, Every(60, Burst("Starfall", 15)))>>,
     !.aoe = <<Under(274000, AtLeast(2, Every(60, Burst("Starfall", 10)))),
         AtLeast(2, Dot("Sunfire", 20)), AtLeast(2, Dot("Moonfire", 30)),
         Costs(-8, Builder("Starfire", 40))>>,
     !.movement = <<Mobile(Dot("Moonfire", 100)), Mobile(Dot("Sunfire", 100))>>,
     !.defensives = <<Every(60, Defensive("Barkskin", 100))>>,
     !.cooldowns = <<Every(120, Burst("Celestial Alignment", 100)),
         Every(180, Burst("Incarnation: Chosen of Elune", 100))>>,
     !.triggers = <<Trigger("Celestial Alignment", Always)>>,
     !.expected = {"Starlord", "Stellar Flare", "Soul of the Forest"}]

FeralDruid ==
  [Profile(103, "Feral", "Druid", "damage") EXCEPT
     !.opener = <<Dot("Rake", 10), Costs(25, Spender("Ferocious Bite", 40)),
         Costs(40, Builder("Shred", 20))>>,
     !.single = <<Under(155722, Dot("Rake", 10)), Costs(40, Builder("Shred", 20)),
         Costs(20, Dot("Rip", 15)), Costs(25, Spender("Ferocious Bite", 40)),
         Every(6, Core("Brutal Slash", 30)), Costs(20, Spender("Primal Wrath", 25))>>,
     !.aoe = <<AtLeast(2, Costs(20, Spender("Primal Wrath", 10))),
         AtLeast(2, Every(6, Core("Brutal Slash", 20))), AtLeast(2, Dot("Thrash", 30)),
         AtLeast(2, Core("Swipe", 40))>>,
     !.movement = <<Mobile(Talent("Feline Swiftness", Costs(40, Builder("Shred", 100))))>>,
     !.defensives = <<Every(120, Defensive("Survival Instincts", 100))>>,
     !.cooldowns = <<Every(180, Burst("Berserk", 100)), Every(30, Burst("Tiger's Fury", 100))>>,
     !.triggers = <<Trigger("Berserk", 50)>>, !.execute = 25,
     !.expected = {"Bloodtalons", "Saber Jaws", "Frenzied Monstrosity"}]

GuardianDruid ==
  [Profile(104, "Guardian", "Druid", "tank") EXCEPT
     !.opener = <<Dot("Moonfire", 10), AtLeast(1, Dot("Thrash", 20)),
         Costs(-10, Builder("Mangle", 30))>>,
     !.single = <<Costs(-10, Builder("Mangle", 10)), Dot("Thrash", 20), Dot("Moonfire", 30),
         Costs(40, Spender("Maul", 40)), Under(192090, Core("Pulverize", 25))>>,
     !.aoe = <<AtLeast(2, Dot("Thrash", 10)), Costs(-10, Builder("Mangle", 20)),
         Under(192090, Core("Pulverize", 25)), Costs(40, Spender("Maul", 40))>>,
     !.movement = <<Mobile(Dot("Moonfire", 100))>>,
     !.defensives = <<Every(120, Defensive("Survival Instincts", 100)),
         Every(60, Defensive("Barkskin", 100)), Every(36, Defensive("Frenzied Regeneration", 100))>>,
     !.cooldowns = <<Every(180, Defensive("Incarnation: Guardian of Ursoc", 100))>>,
     !.triggers = <<Trigger("Bristling Fur", Always)>>,
     !.expected = {"Pulverize", "Bristling Fur", "Raze"}]

RestorationDruid ==
  [Profile(105, "Restoration", "Druid", "healer") EXCEPT
     !.opener = <<Core("Lifebloom", 10), Core("Rejuvenation", 20)>>,
     !.single = <<Core("Rejuvenation", 10), Core("Lifebloom", 20), Costs(28, Core("Regrowth", 30)),
         AtLeast(3, Every(8, Core("Wild Growth", 15))), Every(25, Utility("Swiftmend", 25))>>,
     !.aoe = <<AtLeast(3, Every(8, Core("Wild Growth", 10))),
         AtLeast(3, Every(30, Core("Efflorescence", 20))), AtLeast(2, Core("Rejuvenation", 30))>>,
     !.movement = <<Mobile(Core("Rejuvenation", 100)), Mobile(Costs(28, Core("Regrowth", 100)))>>,
     !.defensives = <<Every(60, Defensive("Barkskin", 100)), Every(90, Defensive("Renewal", 100))>>,
     !.cooldowns = <<Every(90, Burst("Flourish", 100)), Every(180, Burst("Tranquility", 100))>>,
     !.triggers = <<Trigger("Convoke the Spirits", Always)>>,
     !.expected = {"Cultivation", "Photosynthesis", "Convoke the Spirits"}]

DevastationEvoker ==
  [Profile(1467, "Devastation", "Evoker", "damage") EXCEPT
     !.opener = <<Every(120, Burst("Dragonrage", 5)), Costs(-2, Builder("Azure Strike", 20)),
         Core("Disintegrate", 30)>>,
     !.single = <<Core("Disintegrate", 10), Costs(-2, Builder("Azure Strike", 20)),
         Every(24, Core("Eternity Surge", 15)), Dot("Fire Breath", 25), Costs(3, Core("Pyre", 30))>>,
     !.aoe = <<AtLeast(2, Costs(3, Core("Pyre", 10))), AtLeast(2, Dot("Fire Breath", 20)),
         Core("Disintegrate", 30)>>,
     !.movement = <<Mobile(Costs(-2, Builder("Azure Strike", 100))),
         Mobile(Core("Living Flame", 100))>>,
     !.defensives = <<Every(90, Defensive("Obsidian Scales", 100)),
         Every(90, Defensive("Renewing Blaze", 100))>>,
     !.cooldowns = <<Every(120, Burst("Dragonrage", 100)), Every(120, Burst("Tip the Scales", 100))>>,
     !.triggers = <<Trigger("Dragonrage", Always)>>,
     !.expected = {"Font of Magic", "Shattering Star", "Power Nexus"}]

PreservationEvoker ==
  [Profile(1468, "Preservation", "Evoker", "healer") EXCEPT
     !.opener = <<Every(30, Core("Dream Breath", 10)), Utility("Echo", 20), Core("Reversion", 30)>>,
     !.single = <<Core("Reversion", 10), Core("Verdant Embrace", 20),
         Every(30, Core("Dream Breath", 15)), Costs(4, Core("Spiritbloom", 25)), Utility("Echo", 30)>>,
     !.aoe = <<AtLeast(3, Every(30, Core("Dream Breath", 10))),
         AtLeast(3, Core("Emerald Blossom", 20)), AtLeast(2, Core("Reversion", 30))>>,
     !.movement = <<Mobile(Core("Living Flame (heal)", 100)), Mobile(Core("Reversion", 100))>>,
     !.defensives = <<Every(90, Defensive("Obsidian Scales", 100)), Every(24, Utility("Rescue", 100))>>,
     !.cooldowns = <<Every(120, Burst("Rewind", 100)), Every(120, Burst("Dream Flight", 100))>>,
     !.triggers = <<Trigger("Rewind", Always)>>,
     !.expected = {"Lifebind", "Temporal Compression", "Call of Ysera"}]

AugmentationEvoker ==
  [Profile(1473, "Augmentation", "Evoker", "damage") EXCEPT
     !.opener = <<Every(45, Burst("Ebon Might", 5)), Every(120, Burst("Breath of Eons", 10)),
         Core("Disintegrate", 30)>>,
     !.single = <<Core("Disintegrate", 10), Costs(-2, Builder("Azure Strike", 20)),
         Dot("Fire Breath", 25), Core("Blackout", 30), Every(45, Burst("Ebon Might", 15))>>,
     !.aoe = <<AtLeast(2, Costs(3, Core("Pyre", 10))), AtLeast(2, Dot("Fire Breath", 20)),
         Core("Disintegrate", 30)>>, !.movement = <<Mobile(Costs(-2, Builder("Azure Strike", 100)))>>,
     !.defensives = <<Every(90, Defensive("Obsidian Scales", 100))>>,
     !.cooldowns = <<Every(120, Burst("Breath of Eons", 100)), Every(45, Burst("Ebon Might", 100))>>,
     !.triggers = <<Trigger("Breath of Eons", Always)>>,
     !.expected = {"Ebon Might", "Motes", "Bestow Weights"}]

BeastMasteryHunter ==
  [Profile(253, "Beast Mastery", "Hunter", "damage") EXCEPT
     !.opener = <<Every(90, Burst("Bestial Wrath", 5)), Costs(30, Core("Kill Command", 20)),
         Costs(-20, Builder("Cobra Shot", 30))>>,
     !.single = <<Costs(30, Core("Kill Command", 10)), Costs(-20, Builder("Cobra Shot", 20)),
         Every(18, Core("Barbed Shot", 15)), Costs(20, Core("Kill Shot", 40)),
         Core("Direct Care", 50)>>,
     !.aoe = <<AtLeast(2, Costs(25, Core("Multi-Shot", 10))),
         AtLeast(2, Costs(30, Core("Kill Command", 20))),
         AtLeast(2, Every(18, Core("Barbed Shot", 15)))>>,
     !.movement = <<Mobile(Costs(-20, Builder("Cobra Shot", 100))),
         Mobile(Costs(30, Core("Kill Command", 100)))>>,
     !.defensives = <<Every(120, Defensive("Aspect of the Turtle", 100))>>,
     !.cooldowns = <<Every(90, Burst("Bestial Wrath", 100)),
         Every(120, Burst("Aspect of the Wild", 100))>>,
     !.triggers = <<Trigger("Bestial Wrath", Always)>>, !.execute = 20,
     !.expected = {"Beast Cleave", "Dire Beast", "Stomp"}]

MarksmanshipHunter ==
  [Profile(254, "Marksmanship", "Hunter", "damage") EXCEPT
     !.opener = <<Every(120, Burst("Trueshot", 5)), Costs(35, Spender("Aimed Shot", 10)),
         Costs(-15, Builder("Steady Shot", 30))>>,
     !.single = <<Costs(35, Spender("Aimed Shot", 10)), Costs(15, Core("Rapid Fire", 15)),
         Costs(20, Spender("Arcane Shot", 20)), Costs(-15, Builder("Steady Shot", 30)),
         Costs(20, Core("Kill Shot", 40))>>,
     !.aoe = <<AtLeast(2, Costs(25, Core("Multi-Shot", 10))),
         AtLeast(2, Costs(35, Spender("Aimed Shot", 20))),
         AtLeast(2, Costs(15, Core("Rapid Fire", 15)))>>,
     !.movement = <<Mobile(Costs(-15, Builder("Steady Shot", 100))),
         Mobile(Costs(20, Spender("Arcane Shot", 100)))>>,
     !.defensives = <<Every(120, Defensive("Aspect of the Turtle", 100))>>,
     !.cooldowns = <<Every(120, Burst("Trueshot", 100)), Every(45, Burst("Volley", 100))>>,
     !.triggers = <<Trigger("Trueshot", Always)>>, !.execute = 20,
     !.expected = {"Lone Wolf", "Lock and Load", "Trick Shots"}]

SurvivalHunter ==
  [Profile(255, "Survival", "Hunter", "damage") EXCEPT
     !.opener = <<Every(120, Burst("Coordinated Assault", 5)), Costs(30, Core("Kill Command", 20)),
         Dot("Serpent Sting", 10)>>,
     !.single = <<Dot("Serpent Sting", 10), Costs(30, Core("Kill Command", 20)),
         Costs(30, Core("Mongoose Bite", 30)), Costs(-15, Builder("Raptor Strike", 40)),
         Every(18, Core("Wildfire Bomb", 15))>>,
     !.aoe = <<AtLeast(2, Core("Carve", 10)), AtLeast(2, Dot("Serpent Sting", 20)),
         AtLeast(2, Costs(30, Core("Kill Command", 30))),
         AtLeast(2, Every(18, Core("Wildfire Bomb", 15)))>>,
     !.movement = <<Mobile(Costs(-15, Builder("Raptor Strike", 100))),
         Mobile(Costs(30, Core("Kill Command", 100)))>>,
     !.defensives = <<Every(120, Defensive("Aspect of the Turtle", 100))>>,
     !.cooldowns = <<Every(120, Burst("Coordinated Assault", 100)),
         Every(60, Burst("Spearhead", 100))>>, !.triggers = <<Trigger("Coordinated Assault", Always)>>,
     !.execute = 20, !.expected = {"Birds of Prey", "Alpha Predator", "Flanking Strike"}]

ArcaneMage ==
  [Profile(62, "Arcane", "Mage", "damage") EXCEPT
     !.opener = <<Every(90, Burst("Arcane Surge", 5)), Costs(4, Spender("Arcane Blast", 20)),
         Core("Arcane Missiles", 30)>>,
     !.single = <<Costs(4, Spender("Arcane Blast", 10)), Core("Arcane Missiles", 30),
         Spender("Arcane Barrage", 20), Every(45, Burst("Touch of the Magi", 15))>>,
     !.aoe = <<AtLeast(2, Core("Arcane Orb", 10)), Mobile(AtLeast(2, Core("Arcane Explosion", 20))),
         AtLeast(2, Costs(4, Spender("Arcane Blast", 30)))>>,
     !.movement = <<Mobile(Core("Arcane Missiles", 100)), Mobile(Every(20, Utility("Shimmer", 100)))>>,
     !.defensives = <<Every(120, Defensive("Ice Block", 100)), Defensive("Prismatic Barrier", 100)>>,
     !.cooldowns = <<Every(90, Burst("Arcane Surge", 100)),
         Every(45, Burst("Touch of the Magi", 100))>>, !.triggers = <<Trigger("Arcane Surge", Always)>>,
     !.expected = {"Arcane Harmony", "Nether Precision", "Touch of the Magi"}]

FireMage ==
  [Profile(63, "Fire", "Mage", "damage") EXCEPT
     !.opener = <<Every(120, Burst("Combustion", 5)), Costs(-2, Builder("Fireball", 20)),
         Costs(6, Spender("Pyroblast", 30))>>,
     !.single = <<Costs(6, Spender("Pyroblast", 10)), Costs(-2, Builder("Fireball", 20)),
         Every(12, Proc("Fire Blast", 15)), Every(30, Core("Phoenix Flames", 25)),
         Every(60, Burst("Meteor", 30))>>,
     !.aoe = <<AtLeast(3, Core("Flamestrike", 10)), AtLeast(2, Costs(6, Spender("Pyroblast", 20))),
         AtLeast(2, Costs(-2, Builder("Fireball", 30)))>>,
     !.movement = <<Mobile(Costs(-4, Builder("Scorch", 100))),
         Mobile(Every(12, Proc("Fire Blast", 100)))>>,
     !.defensives = <<Every(120, Defensive("Ice Block", 100)), Defensive("Blazing Barrier", 100)>>,
     !.cooldowns = <<Every(120, Burst("Combustion", 100)), Every(60, Burst("Meteor", 100))>>,
     !.triggers = <<Trigger("Combustion", Always)>>,
     !.expected = {"Pyroclasm", "Searing Touch", "Sun King's Blessing"}]

FrostMage ==
  [Profile(64, "Frost", "Mage", "damage") EXCEPT
     !.opener = <<Every(60, Burst("Frozen Orb", 10)), Costs(5, Spender("Glacial Spike", 20)),
         Costs(-2, Builder("Frostbolt", 30))>>,
     !.single = <<Costs(5, Spender("Glacial Spike", 10)), Costs(-2, Builder("Frostbolt", 20)),
         Every(20, Core("Flurry", 15)), Costs(3, Spender("Ice Lance", 30)),
         Every(90, Core("Ray of Frost", 25))>>,
     !.aoe = <<AtLeast(3, Dot("Blizzard", 10)), AtLeast(3, Every(60, Burst("Frozen Orb", 15))),
         AtLeast(2, Costs(3, Spender("Ice Lance", 30)))>>,
     !.movement = <<Mobile(Costs(3, Spender("Ice Lance", 100))),
         Mobile(Every(20, Core("Ice Nova", 100)))>>,
     !.defensives = <<Every(120, Defensive("Ice Block", 100)), Defensive("Ice Barrier", 100)>>,
     !.cooldowns = <<Every(60, Burst("Frozen Orb", 100)), Every(90, Core("Ray of Frost", 100))>>,
     !.triggers = <<Trigger("Shatter", Always)>>,
     !.expected = {"Bone Chilling", "Thermal Void", "Glacial Spike"}]

BrewmasterMonk ==
  [Profile(268, "Brewmaster", "Monk", "tank") EXCEPT
     !.opener = <<Costs(20, Core("Keg Smash", 10)), Costs(-15, Core("Tiger Palm", 20)),
         Under(215479, Dot("Breath of Fire", 30))>>,
     !.single = <<Costs(20, Core("Keg Smash", 10)), Under(215479, Dot("Breath of Fire", 20)),
         Costs(-15, Core("Tiger Palm", 30)), Costs(15, Core("Blackout Kick", 25)),
         Every(1, Defensive("Purifying Brew", 5))>>,
     !.aoe = <<AtLeast(2, Costs(20, Core("Keg Smash", 10))),
         Under(215479, AtLeast(2, Dot("Breath of Fire", 20))),
         AtLeast(2, Costs(15, Core("Blackout Kick", 30)))>>,
     !.movement = <<Mobile(Costs(-15, Core("Tiger Palm", 100))),
         Mobile(Costs(15, Core("Spinning Crane Kick", 100)))>>,
     !.defensives = <<Every(1, Defensive("Purifying Brew", 100)),
         Every(120, Defensive("Fortifying Brew", 100)), Every(90, Defensive("Dampen Harm", 100))>>,
     !.cooldowns = <<Under(215479, Dot("Breath of Fire", 20)),
         Every(180, Defensive("Invoke Niuzao", 100))>>,
     !.triggers = <<Trigger("Celestial Brew", Always)>>,
     !.expected = {"Celestial Brew", "Black Ox Brew", "High Tolerance"}]

WindwalkerMonk ==
  [Profile(269, "Windwalker", "Monk", "damage") EXCEPT
     !.opener = <<Every(90, Burst("Storm, Earth, and Fire", 5)), Costs(-15, Builder("Tiger Palm", 20)),
         Costs(20, Core("Rising Sun Kick", 10))>>,
     !.single = <<Costs(20, Core("Rising Sun Kick", 10)), Costs(-15, Builder("Tiger Palm", 20)),
         Costs(15, Core("Blackout Kick", 30)), Every(24, Burst("Fists of Fury", 15)),
         Costs(15, Core("Spinning Crane Kick", 40))>>,
     !.aoe = <<AtLeast(2, Costs(15, Core("Spinning Crane Kick", 10))),
         AtLeast(2, Costs(20, Core("Rising Sun Kick", 20))),
         AtLeast(2, Costs(15, Core("Blackout Kick", 30)))>>,
     !.movement = <<Mobile(Costs(-15, Builder("Tiger Palm", 100))),
         Mobile(Every(20, Utility("Chi Torpedo", 100)))>>,
     !.defensives = <<Every(90, Defensive("Diffuse Magic", 100)),
         Every(90, Defensive("Touch of Karma", 100))>>,
     !.cooldowns = <<Every(90, Burst("Storm, Earth, and Fire", 100)),
         Every(60, Burst("Touch of Death", 100))>>,
     !.triggers = <<Trigger("Storm, Earth, and Fire", Always)>>,
     !.expected = {"Mark of the Crane", "Hit Combo", "Whirling Dragon Punch"}]

MistweaverMonk ==
  [Profile(270, "Mistweaver", "Monk", "healer") EXCEPT
     !.opener = <<Every(9, Core("Renewing Mist", 10)), Every(30, Core("Essence Font", 20)),
         Costs(20, Core("Enveloping Mist", 30))>>,
     !.single = <<Every(9, Core("Renewing Mist", 10)), Costs(20, Core("Enveloping Mist", 20)),
         Costs(14, Core("Vivify", 30)), Every(120, Defensive("Life Cocoon", 5)),
         Every(30, Utility("Thunder Focus Tea", 15))>>,
     !.aoe = <<AtLeast(3, Every(30, Core("Essence Font", 10))),
         AtLeast(3, Every(9, Core("Renewing Mist", 20))), Every(90, Burst("Ancient Teachings", 25))>>,
     !.movement = <<Mobile(Talent("Misty Peaks", Costs(14, Core("Vivify", 100)))),
         Mobile(Every(9, Core("Renewing Mist", 100)))>>,
     !.defensives = <<Every(120, Defensive("Life Cocoon", 100)),
         Every(90, Defensive("Diffuse Magic", 100))>>,
     !.cooldowns = <<Every(180, Burst("Revival", 100)), Every(90, Burst("Ancient Teachings", 100))>>,
     !.triggers = <<Trigger("Revival", Always)>>,
     !.expected = {"Clouded Focus", "Invoke Yu'lon", "Ancient Concordance"}]

HolyPaladin ==
  [Profile(65, "Holy", "Paladin", "healer") EXCEPT
     !.opener = <<Every(9, Core("Holy Shock", 10)), AtLeast(3, Costs(3, Core("Light of Dawn", 20))),
         Costs(3, Core("Word of Glory", 30))>>,
     !.single = <<Every(9, Core("Holy Shock", 10)), Costs(3, Core("Word of Glory", 20)),
         Costs(18, Core("Flash of Light", 30)), Costs(-1, Core("Judgment", 40))>>,
     !.aoe = <<AtLeast(3, Costs(3, Core("Light of Dawn", 10))),
         AtLeast(3, Every(9, Core("Holy Shock", 20))), Utility("Beacon of Light", 5)>>,
     !.movement = <<Mobile(Every(9, Core("Holy Shock", 100))),
         Mobile(Costs(3, Core("Word of Glory", 100)))>>,
     !.defensives = <<Every(300, Defensive("Divine Shield", 100)),
         Every(120, Defensive("Blessing of Sacrifice", 100))>>,
     !.cooldowns = <<Every(120, Burst("Avenging Wrath", 100)), Every(180, Burst("Holy Avenger", 100))>>,
     !.triggers = <<Trigger("Avenging Wrath", Always)>>,
     !.expected = {"Shock Barrier", "Maraads", "Beacon of Virtue"}]

ProtectionPaladin ==
  [Profile(66, "Protection", "Paladin", "tank") EXCEPT
     !.opener = <<Costs(15, Core("Avenger's Shield", 10)),
         Costs(3, Core("Shield of the Righteous", 20)), Costs(-1, Builder("Judgment", 30))>>,
     !.single = <<Costs(3, Core("Shield of the Righteous", 10)),
         Costs(15, Core("Avenger's Shield", 20)), Costs(-1, Builder("Judgment", 30)),
         Costs(20, Dot("Consecration", 40)), Core("Hammer of the Righteous", 25)>>,
     !.aoe = <<AtLeast(2, Costs(20, Dot("Consecration", 10))),
         AtLeast(2, Costs(15, Core("Avenger's Shield", 20))),
         AtLeast(2, Costs(3, Core("Shield of the Righteous", 30))),
         AtLeast(2, Core("Hammer of the Righteous", 25))>>,
     !.movement = <<Mobile(Costs(-1, Builder("Judgment", 100))),
         Mobile(Costs(3, Core("Word of Glory", 100)))>>,
     !.defensives = <<Every(120, Defensive("Ardent Defender", 100)),
         Every(300, Defensive("Guardian of Ancient Kings", 100)),
         Every(300, Defensive("Divine Shield", 100))>>,
     !.cooldowns = <<Every(120, Burst("Avenging Wrath", 100)), Every(45, Defensive("Seraphim", 100))>>,
     !.triggers = <<Trigger("Avenging Wrath", Always)>>,
     !.expected = {"Seraphim", "Blessed Hammer", "Righteous Protector"}]

RetributionPaladin ==
  [Profile(70, "Retribution", "Paladin", "damage") EXCEPT
     !.opener = <<Every(120, Burst("Avenging Wrath", 5)), Costs(-1, Core("Blade of Justice", 20)),
         Costs(3, Spender("Templar's Verdict", 10))>>,
     !.single = <<Costs(3, Spender("Templar's Verdict", 10)), Costs(-1, Core("Blade of Justice", 20)),
         Costs(-1, Builder("Judgment", 30)), Costs(-1, Builder("Crusader Strike", 25)),
         Every(30, Core("Wake of Ashes", 15)), AtLeast(2, Costs(3, Spender("Divine Storm", 40)))>>,
     !.aoe = <<AtLeast(2, Costs(3, Spender("Divine Storm", 10))),
         AtLeast(2, Costs(-1, Core("Blade of Justice", 20))),
         AtLeast(2, Every(30, Core("Wake of Ashes", 15)))>>,
     !.movement = <<Mobile(Costs(-1, Builder("Judgment", 100))),
         Mobile(Costs(3, Core("Word of Glory", 100)))>>,
     !.defensives = <<Every(300, Defensive("Divine Shield", 100)),
         Every(120, Defensive("Shield of Vengeance", 100))>>,
     !.cooldowns = <<Every(120, Burst("Avenging Wrath", 100)), Every(120, Burst("Crusade", 100))>>,
     !.triggers = <<Trigger("Crusade", Always)>>,
     !.expected = {"Crusade", "Divine Resonance", "Empyrean Legacy"}]

DisciplinePriest ==
  [Profile(256, "Discipline", "Priest", "healer") EXCEPT
     !.opener = <<Every(20, Core("Power Word: Radiance", 10)), Core("Shadow Covenant", 20),
         Every(9, Core("Penance", 30))>>,
     !.single = <<Every(9, Core("Penance", 10)), Costs(30, Core("Shadow Mend", 20)),
         Costs(20, Core("Power Word: Shield", 30)), Dot("Shadow Word: Pain", 40)>>,
     !.aoe = <<AtLeast(3, Every(20, Core("Power Word: Radiance", 10))),
         AtLeast(3, Core("Shadow Covenant", 20)), AtLeast(3, Every(9, Core("Penance", 30)))>>,
     !.movement = <<Mobile(Dot("Shadow Word: Pain", 100)),
         Mobile(Costs(20, Core("Power Word: Shield", 100)))>>,
     !.defensives = <<Every(180, Defensive("Power Word: Barrier", 100)),
         Every(120, Defensive("Pain Suppression", 100))>>,
     !.cooldowns = <<Every(90, Burst("Evangelism", 100)), Every(90, Burst("Rapture", 100))>>,
     !.triggers = <<Trigger("Evangelism", Always)>>,
     !.expected = {"Castigation", "Shadow Covenant", "Evangelism"}]

HolyPriest ==
  [Profile(257, "Holy", "Priest", "healer") EXCEPT
     !.opener = <<Every(15, Core("Circle of Healing", 10)), Every(12, Core("Prayer of Mending", 20)),
         Dot("Renew", 30)>>,
     !.single = <<Costs(24, Core("Flash Heal", 10)), Costs(16, Core("Heal", 30)), Dot("Renew", 20),
         Every(12, Core("Prayer of Mending", 15))>>,
     !.aoe = <<AtLeast(3, Every(15, Core("Circle of Healing", 10))),
         AtLeast(3, Costs(28, Core("Prayer of Healing", 20))),
         AtLeast(3, Every(60, Burst("Holy Word: Sanctify", 15)))>>,
     !.movement = <<Mobile(Dot("Renew", 100)), Mobile(Costs(24, Core("Flash Heal", 100)))>>,
     !.defensives = <<Every(180, Defensive("Guardian Spirit", 100)),
         Every(120, Defensive("Pain Suppression", 100))>>,
     !.cooldowns = <<Every(180, Burst("Divine Hymn", 100)),
         Every(120, Burst("Holy Word: Salvation", 100))>>,
     !.triggers = <<Trigger("Divine Hymn", Always)>>,
     !.expected = {"Prayer Circle", "Benediction", "Holy Word: Salvation"}]

ShadowPriest ==
  [Profile(258, "Shadow", "Priest", "damage") EXCEPT
     !.opener = <<Core("Shadowform", 5), Dot("Shadow Word: Pain", 10),
         Costs(-3, Dot("Vampiric Touch", 20)), Costs(50, Spender("Devouring Plague", 30))>>,
     !.single = <<Costs(50, Spender("Devouring Plague", 10)), Every(9, Core("Mind Blast", 15)),
         Every(6, Core("Void Bolt", 20)), Dot("Shadow Word: Pain", 30),
         Costs(-3, Dot("Vampiric Touch", 40)), Costs(20, Builder("Mind Flay", 50))>>,
     !.aoe = <<AtLeast(3, Burst("Void Eruption", 10)), AtLeast(3, Dot("Shadow Word: Pain", 20)),
         AtLeast(3, Costs(-3, Dot("Vampiric Touch", 30))),
         AtLeast(3, Costs(20, Builder("Mind Sear", 40)))>>,
     !.movement = <<Mobile(Dot("Shadow Word: Pain", 100)), Mobile(Core("Shadow Word: Death", 100))>>,
     !.defensives = <<Every(120, Defensive("Dispersion", 100)),
         Every(120, Utility("Void Shift", 100))>>,
     !.cooldowns = <<Every(90, Burst("Void Eruption", 100)), Every(120, Burst("Dark Ascension", 100))>>,
     !.triggers = <<Trigger("Dark Ascension", Always)>>,
     !.expected = {"Mental Fortitude", "Distorted Reality", "Void Eruption"}]

AssassinationRogue ==
  [Profile(259, "Assassination", "Rogue", "damage") EXCEPT
     !.opener = <<Mobile(Dot("Garrote", 10)), Costs(25, Dot("Rupture", 20)),
         Costs(35, Builder("Mutilate", 30))>>,
     !.single = <<Mobile(Dot("Garrote", 10)), Costs(25, Dot("Rupture", 20)),
         Costs(35, Builder("Mutilate", 30)), Costs(25, Spender("Envenom", 40)),
         Every(45, Core("Poison Bomb", 15))>>,
     !.aoe = <<AtLeast(2, Costs(25, Dot("Crimson Tempest", 10))),
         Mobile(AtLeast(2, Dot("Garrote", 20))), AtLeast(2, Costs(35, Builder("Mutilate", 30)))>>,
     !.movement = <<Mobile(Dot("Garrote", 100)), Mobile(Every(25, Utility("Shiv", 100)))>>,
     !.defensives = <<Every(120, Defensive("Cloak of Shadows", 100)),
         Every(120, Defensive("Evasion", 100))>>,
     !.cooldowns = <<Every(90, Burst("Vendetta", 100)), Every(60, Burst("Kingsbane", 100))>>,
     !.triggers = <<Trigger("Vendetta", Always)>>, !.execute = 30,
     !.expected = {"Master Assassin", "Venom Rush", "Crimson Tempest"}]

OutlawRogue ==
  [Profile(260, "Outlaw", "Rogue", "damage") EXCEPT
     !.opener = <<Costs(40, Builder("Ambush", 10)), Costs(25, Dot("Slice and Dice", 20)),
         Costs(45, Builder("Sinister Strike", 30))>>,
     !.single = <<Costs(25, Dot("Slice and Dice", 10)), Costs(45, Builder("Sinister Strike", 20)),
         Every(45, Core("Roll the Bones", 15)), Costs(25, Spender("Between the Eyes", 30)),
         Costs(25, Spender("Dispatch", 40)), Every(120, Burst("Adrenaline Rush", 5))>>,
     !.aoe = <<AtLeast(2, Every(30, Core("Blade Flurry", 10))),
         AtLeast(2, Costs(45, Builder("Sinister Strike", 20))),
         AtLeast(2, Costs(25, Spender("Between the Eyes", 30)))>>,
     !.movement = <<Mobile(Costs(20, Core("Pistol Shot", 100))),
         Mobile(Talent("Quick Draw", Costs(45, Builder("Sinister Strike", 100))))>>,
     !.defensives = <<Every(120, Defensive("Cloak of Shadows", 100)),
         Every(120, Defensive("Evasion", 100))>>,
     !.cooldowns = <<Every(120, Burst("Adrenaline Rush", 100)),
         Every(120, Burst("Killing Spree", 100))>>, !.triggers = <<Trigger("Adrenaline Rush", Always)>>,
     !.execute = 30, !.expected = {"Blade Rush", "Ghostly Strike", "Killing Spree"}]

SubtletyRogue ==
  [Profile(261, "Subtlety", "Rogue", "damage") EXCEPT
     !.opener = <<Costs(40, Builder("Shadowstrike", 10)), Costs(25, Dot("Nightblade", 20)),
         Costs(25, Spender("Eviscerate", 30))>>,
     !.single = <<Costs(40, Builder("Shadowstrike", 10)), Costs(25, Dot("Nightblade", 20)),
         Costs(25, Spender("Eviscerate", 30)), Costs(35, Builder("Backstab", 40)),
         Every(60, Burst("Symbol of Death", 5))>>,
     !.aoe = <<AtLeast(2, Costs(40, Builder("Shuriken Storm", 10))),
         AtLeast(2, Costs(25, Dot("Nightblade", 20))),
         AtLeast(2, Costs(25, Spender("Eviscerate", 30)))>>,
     !.movement = <<Mobile(Talent("Shadowstep", Costs(40, Builder("Shadowstrike", 100)))),
         Mobile(Core("Shuriken Toss", 100))>>,
     !.defensives = <<Every(120, Defensive("Cloak of Shadows", 100)),
         Every(120, Defensive("Evasion", 100))>>,
     !.cooldowns = <<Every(60, Burst("Shadow Dance", 100)), Every(90, Burst("Secret Technique", 100))>>,
     !.triggers = <<Trigger("Shadow Dance", Always)>>, !.execute = 30,
     !.expected = {"Deeper Stratagem", "Secret Technique", "Shadow Blades"}]

ElementalShaman ==
  [Profile(262, "Elemental", "Shaman", "damage") EXCEPT
     !.opener = <<Every(150, Burst("Fire Elemental", 5)), Costs(20, Core("Lava Burst", 10)),
         Dot("Flame Shock", 20)>>,
     !.single = <<Costs(20, Core("Lava Burst", 10)), Dot("Flame Shock", 20),
         Costs(-6, Builder("Lightning Bolt", 30)), Costs(60, Spender("Earth Shock", 40)),
         AtLeast(2, Core("Chain Lightning", 50))>>,
     !.aoe = <<AtLeast(2, Core("Chain Lightning", 10)), AtLeast(2, Dot("Flame Shock", 20)),
         AtLeast(2, Dot("Earthquake", 30)), AtLeast(2, Costs(20, Core("Lava Burst", 40)))>>,
     !.movement = <<Mobile(Dot("Flame Shock", 100)),
         Mobile(Talent("Surge of Power", Costs(-6, Builder("Lightning Bolt", 100))))>>,
     !.defensives = <<Every(90, Defensive("Astral Shift", 100)),
         Every(120, Utility("Spirit Walker's Grace", 100))>>,
     !.cooldowns = <<Every(150, Burst("Fire Elemental", 100)), Every(60, Burst("Stormkeeper", 100))>>,
     !.triggers = <<Trigger("Fire Elemental", Always)>>,
     !.expected = {"Stormkeeper", "Echo of the Elements", "Liquid Magma"}]

EnhancementShaman ==
  [Profile(263, "Enhancement", "Shaman", "damage") EXCEPT
     !.opener = <<Every(120, Burst("Feral Spirit", 5)), Costs(20, Core("Stormstrike", 10)),
         Costs(20, Core("Lava Lash", 20))>>,
     !.single = <<Costs(20, Core("Stormstrike", 10)), Costs(20, Core("Lava Lash", 20)),
         Costs(20, Core("Crash Lightning", 30)), Costs(15, Core("Frost Shock", 40)),
         Costs(-6, Builder("Lightning Bolt", 50))>>,
     !.aoe = <<AtLeast(2, Costs(20, Core("Crash Lightning", 10))),
         AtLeast(2, Costs(20, Core("Stormstrike", 20))), AtLeast(2, Costs(20, Core("Lava Lash", 30))),
         AtLeast(2, Every(12, Core("Fire Nova", 15)))>>,
     !.movement = <<Mobile(Costs(15, Core("Frost Shock", 100))),
         Mobile(Costs(-6, Builder("Lightning Bolt", 100)))>>,
     !.defensives = <<Every(90, Defensive("Astral Shift", 100)),
         Every(120, Utility("Spirit Walker's Grace", 100))>>,
     !.cooldowns = <<Every(120, Burst("Feral Spirit", 100)), Every(180, Burst("Ascendance", 100))>>,
     !.triggers = <<Trigger("Ascendance", Always)>>,
     !.expected = {"Hot Hand", "Forceful Winds", "Ascendance"}]

RestorationShaman ==
  [Profile(264, "Restoration", "Shaman", "healer") EXCEPT
     !.opener = <<Every(30, Core("Healing Rain", 10)), Core("Riptide", 20),
         Every(30, Core("Healing Stream Totem", 30))>>,
     !.single = <<Core("Riptide", 10), Costs(22, Core("Healing Surge", 30)),
         Costs(18, Core("Healing Wave", 40)), Every(12, Core("Unleash Life", 20)),
         AtLeast(3, Core("Chain Heal", 15))>>,
     !.aoe = <<AtLeast(3, Every(30, Core("Healing Rain", 10))), AtLeast(3, Core("Chain Heal", 20)),
         AtLeast(2, Core("Riptide", 30))>>,
     !.movement = <<Mobile(Core("Riptide", 100)), Mobile(Costs(22, Core("Healing Surge", 100)))>>,
     !.defensives = <<Every(180, Defensive("Spirit Link Totem", 100)),
         Every(90, Defensive("Astral Shift", 100))>>,
     !.cooldowns = <<Every(180, Burst("Healing Tide Totem", 100)),
         Every(180, Burst("Ascendance", 100))>>, !.triggers = <<Trigger("Healing Tide Totem", Always)>>,
     !.expected = {"Earthen Harmony", "Undulation", "Primordial Wave"}]

AfflictionWarlock ==
  [Profile(265, "Affliction", "Warlock", "damage") EXCEPT
     !.opener = <<Dot("Agony", 10), Dot("Corruption", 20), Costs(1, Dot("Unstable Affliction", 30)),
         Every(15, Core("Haunt", 40))>>,
     !.single = <<Dot("Agony", 10), Dot("Corruption", 20), Costs(1, Dot("Unstable Affliction", 30)),
         Every(15, Core("Haunt", 40)), Costs(-8, Builder("Drain Life", 50)),
         Every(60, Burst("Darkglare", 5))>>,
     !.aoe = <<AtLeast(2, Dot("Seed of Corruption", 10)), AtLeast(2, Dot("Agony", 20)),
         AtLeast(2, Costs(1, Dot("Unstable Affliction", 30)))>>,
     !.movement = <<Mobile(Costs(-8, Builder("Drain Life", 100))), Mobile(Dot("Corruption", 100))>>,
     !.defensives = <<Every(60, Defensive("Dark Pact", 100)),
         Every(90, Defensive("Unending Resolve", 100))>>,
     !.cooldowns = <<Every(60, Burst("Summon Darkglare", 100)), Every(60, Burst("Soul Rot", 100))>>,
     !.triggers = <<Trigger("Darkglare", Always)>>,
     !.expected = {"Sacrolash", "Soul Conduit", "Summon Darkglare"}]

DemonologyWarlock ==
  [Profile(266, "Demonology", "Warlock", "damage") EXCEPT
     !.opener = <<Every(180, Burst("Summon Demonic Tyrant", 5)), Costs(1, Core("Hand of Gul'dan", 20)),
         Costs(40, Spender("Demonbolt", 30))>>,
     !.single = <<Costs(40, Spender("Demonbolt", 10)), Costs(1, Core("Hand of Gul'dan", 20)),
         Costs(-10, Builder("Shadow Bolt", 30)), Every(20, Costs(2, Core("Call Dreadstalkers", 15)))>>,
     !.aoe = <<AtLeast(2, Costs(1, Core("Hand of Gul'dan", 10))),
         AtLeast(2, Costs(40, Spender("Demonbolt", 20))), AtLeast(3, Every(6, Core("Implosion", 15)))>>,
     !.movement = <<Mobile(Costs(-10, Builder("Shadow Bolt", 100))),
         Mobile(Costs(1, Core("Hand of Gul'dan", 100)))>>,
     !.defensives = <<Every(60, Defensive("Dark Pact", 100)),
         Every(90, Defensive("Unending Resolve", 100))>>,
     !.cooldowns = <<Every(180, Burst("Summon Demonic Tyrant", 100)),
         Every(180, Burst("Nether Portal", 100))>>, !.triggers = <<Trigger("Demonic Tyrant", Always)>>,
     !.expected = {"Demoniac", "Inner Demons", "Summon Demonic Tyrant"}]

DestructionWarlock ==
  [Profile(267, "Destruction", "Warlock", "damage") EXCEPT
     !.opener = <<Every(180, Burst("Summon Infernal", 5)), Dot("Immolate", 10),
         Costs(-10, Builder("Incinerate", 20))>>,
     !.single = <<Dot("Immolate", 10), Costs(-10, Builder("Incinerate", 20)),
         Every(12, Core("Conflagrate", 15)), Costs(2, Spender("Chaos Bolt", 30)),
         Every(20, Utility("Havoc", 40))>>,
     !.aoe = <<AtLeast(2, Dot("Rain of Fire", 10)), AtLeast(2, Dot("Immolate", 20)),
         AtLeast(2, Costs(-10, Builder("Incinerate", 30))),
         AtLeast(2, Costs(2, Spender("Chaos Bolt", 30)))>>,
     !.movement = <<Mobile(Costs(-10, Builder("Incinerate", 100))),
         Mobile(Every(12, Core("Conflagrate", 100)))>>,
     !.defensives = <<Every(60, Defensive("Dark Pact", 100)),
         Every(90, Defensive("Unending Resolve", 100))>>,
     !.cooldowns = <<Every(180, Burst("Summon Infernal", 100)),
         Every(120, Burst("Dark Soul: Instability", 100))>>,
     !.triggers = <<Trigger("Dark Soul", Always)>>,
     !.expected = {"Eradication", "Roaring Blaze", "Soul Fire"}]

ArmsWarrior ==
  [Profile(71, "Arms", "Warrior", "damage") EXCEPT
     !.opener = <<Every(90, Burst("Avatar", 5)), Costs(30, Core("Mortal Strike", 10)),
         Every(12, Core("Overpower", 20))>>,
     !.single = <<Costs(30, Core("Mortal Strike", 10)), Every(12, Core("Overpower", 20)),
         Costs(20, Core("Execute", 40)), Costs(-15, Builder("Slam", 30)),
         Every(45, Core("Colossus Smash", 15))>>,
     !.aoe = <<AtLeast(2, Costs(20, Core("Cleave", 10))), AtLeast(2, Costs(20, Core("Whirlwind", 20))),
         AtLeast(2, Every(90, Burst("Bladestorm", 5)))>>,
     !.movement = <<Mobile(Every(45, Utility("Heroic Leap", 100))),
         Mobile(Talent("Warbreaker", Costs(-15, Builder("Slam", 100))))>>,
     !.defensives = <<Every(120, Defensive("Die by the Sword", 100)),
         Defensive("Defensive Stance", 100)>>,
     !.cooldowns = <<Every(90, Burst("Avatar", 100)), Every(90, Burst("Bladestorm", 100))>>,
     !.triggers = <<Trigger("Avatar", Always)>>, !.execute = 20,
     !.expected = {"Warbreaker", "Colossus Smash", "Deadly Calm"}]

FuryWarrior ==
  [Profile(72, "Fury", "Warrior", "damage") EXCEPT
     !.opener = <<Every(90, Burst("Recklessness", 5)), Costs(80, Spender("Rampage", 10)),
         Costs(-20, Builder("Bloodthirst", 20))>>,
     !.single = <<Costs(80, Spender("Rampage", 10)), Costs(-20, Builder("Bloodthirst", 20)),
         Every(12, Core("Onslaught", 30)), Under(184362, Core("Raging Blow", 40)),
         Costs(20, Core("Execute", 50))>>,
     !.aoe = <<AtLeast(2, Costs(20, Core("Whirlwind", 10))),
         AtLeast(2, Costs(80, Spender("Rampage", 20))),
         AtLeast(2, Costs(-20, Builder("Bloodthirst", 30)))>>,
     !.movement = <<Mobile(Every(45, Utility("Heroic Leap", 100))),
         Mobile(Talent("Double Time", Costs(-20, Builder("Bloodthirst", 100))))>>,
     !.defensives = <<Every(120, Defensive("Die by the Sword", 100)),
         Every(60, Defensive("Enraged Regeneration", 100))>>,
     !.cooldowns = <<Every(90, Burst("Recklessness", 100)), Every(90, Burst("Bladestorm", 100))>>,
     !.triggers = <<Trigger("Recklessness", Always)>>, !.execute = 20,
     !.expected = {"Frenzy", "Onslaught", "Reckless Abandon"}]

ProtectionWarrior ==
  [Profile(73, "Protection", "Warrior", "tank") EXCEPT
     !.opener = <<Costs(-15, Core("Shield Slam", 10)), AtLeast(1, Dot("Thunder Clap", 20)),
         Costs(20, Core("Revenge", 30))>>,
     !.single = <<Costs(-15, Core("Shield Slam", 10)), Costs(20, Core("Revenge", 20)),
         Dot("Thunder Clap", 30), Costs(-5, Builder("Devastate", 40)),
         Every(16, Defensive("Shield Block", 5))>>,
     !.aoe = <<AtLeast(2, Dot("Thunder Clap", 10)), AtLeast(2, Costs(20, Core("Revenge", 20))),
         AtLeast(2, Costs(-15, Core("Shield Slam", 30)))>>,
     !.movement = <<Mobile(Costs(-5, Builder("Devastate", 100))),
         Mobile(Every(45, Utility("Heroic Leap", 100)))>>,
     !.defensives = <<Every(16, Defensive("Shield Block", 100)),
         Every(120, Defensive("Shield Wall", 100)), Every(180, Defensive("Last Stand", 100))>>,
     !.cooldowns = <<Every(90, Defensive("Avatar", 100)),
         Every(45, Defensive("Demoralizing Shout", 100))>>,
     !.triggers = <<Trigger("Shield Wall", Always)>>,
     !.expected = {"Into the Fray", "Booming Voice", "Heavy Repercussions"}]

(* The profile of every specialization, PROFILE_BY_ID in profiles.py.      *)
PROFILES ==
  {Ordered(p) : p \in {BloodDeathKnight, FrostDeathKnight, UnholyDeathKnight, HavocDemonHunter,
         VengeanceDemonHunter, DevourerDemonHunter, BalanceDruid, FeralDruid, GuardianDruid,
         RestorationDruid, DevastationEvoker, PreservationEvoker, AugmentationEvoker,
         BeastMasteryHunter, MarksmanshipHunter, SurvivalHunter, ArcaneMage, FireMage, FrostMage,
         BrewmasterMonk, WindwalkerMonk, MistweaverMonk, HolyPaladin, ProtectionPaladin,
         RetributionPaladin, DisciplinePriest, HolyPriest, ShadowPriest, AssassinationRogue,
         OutlawRogue, SubtletyRogue, ElementalShaman, EnhancementShaman, RestorationShaman,
         AfflictionWarlock, DemonologyWarlock, DestructionWarlock, ArmsWarrior, FuryWarrior,
         ProtectionWarrior}}

(* The catalogue a player picks a specialization from (specs.py).          *)
SPECIALIZATIONS ==
  {[id |-> s[1], name |-> s[2], class |-> s[3], role |-> s[4]] : s \in {
    <<250, "Blood", "Death Knight", "tank">>, <<251, "Frost", "Death Knight", "damage">>,
    <<252, "Unholy", "Death Knight", "damage">>, <<577, "Havoc", "Demon Hunter", "damage">>,
    <<581, "Vengeance", "Demon Hunter", "tank">>, <<1480, "Devourer", "Demon Hunter", "damage">>,
    <<102, "Balance", "Druid", "damage">>, <<103, "Feral", "Druid", "damage">>,
    <<104, "Guardian", "Druid", "tank">>, <<105, "Restoration", "Druid", "healer">>,
    <<1467, "Devastation", "Evoker", "damage">>, <<1468, "Preservation", "Evoker", "healer">>,
    <<1473, "Augmentation", "Evoker", "damage">>, <<253, "Beast Mastery", "Hunter", "damage">>,
    <<254, "Marksmanship", "Hunter", "damage">>, <<255, "Survival", "Hunter", "damage">>,
    <<62, "Arcane", "Mage", "damage">>, <<63, "Fire", "Mage", "damage">>,
    <<64, "Frost", "Mage", "damage">>, <<268, "Brewmaster", "Monk", "tank">>,
    <<269, "Windwalker", "Monk", "damage">>, <<270, "Mistweaver", "Monk", "healer">>,
    <<65, "Holy", "Paladin", "healer">>, <<66, "Protection", "Paladin", "tank">>,
    <<70, "Retribution", "Paladin", "damage">>, <<256, "Discipline", "Priest", "healer">>,
    <<257, "Holy", "Priest", "healer">>, <<258, "Shadow", "Priest", "damage">>,
    <<259, "Assassination", "Rogue", "damage">>, <<260, "Outlaw", "Rogue", "damage">>,
    <<261, "Subtlety", "Rogue", "damage">>, <<262, "Elemental", "Shaman", "damage">>,
    <<263, "Enhancement", "Shaman", "damage">>, <<264, "Restoration", "Shaman", "healer">>,
    <<265, "Affliction", "Warlock", "damage">>, <<266, "Demonology", "Warlock", "damage">>,
    <<267, "Destruction", "Warlock", "damage">>, <<71, "Arms", "Warrior", "damage">>,
    <<72, "Fury", "Warrior", "damage">>, <<73, "Protection", "Warrior", "tank">>}}
===============================================================================
